---------------------------- MODULE Spec2Model ----------------------------
(***************************************************************************)
(* Ambient-light-sensor brightness filter of mce                           *)
(* (src/modules/filter-brightness-als.c) as a state machine.               *)
(*                                                                         *)
(* The module is single threaded: every callback of the GLib main loop     *)
(* runs to completion.  One action of this model is one callback.  The     *)
(* C statics are the fields of the record St; a handler is an operator     *)
(* from the record before the callback to the record after it, so that     *)
(* the calls a handler makes (filters, adjust_als_thresholds, timers)      *)
(* are composed in the order of the code.                                  *)
(***************************************************************************)
EXTENDS Integers, Sequences, FiniteSets, TLC

(***************************************************************************)
(* Bounds of the model                                                     *)
(***************************************************************************)
\* largest ordinary lux value the sensor delivers in the model
MaxLux == 2
\* largest calibration blob the calibration store returns, in 32-bit words
MaxBlobWords == 3
\* requesters (D-Bus senders) of the main specification
NumRequesters == 2
\* I/O monitor handles the I/O module hands out (0 is NULL)
MaxHandle == 4
\* rows of an ALS profile table (the header's array capacity)
ALS_RANGES == 4

(***************************************************************************)
(* Program constants                                                       *)
(***************************************************************************)
ALS_MAX_MONITORED == 16
G_MAXINT == 2147483647
ALS_PROFILE_MINIMUM == 0
ALS_PROFILE_NORMAL == 2
ALS_PROFILE_MAXIMUM == 4
ALS_DISPLAY_ON_POLL_FREQ == 1500
ALS_DISPLAY_DIM_POLL_FREQ == 5000
ALS_DISPLAY_OFF_POLL_FREQ == 0

Lux == 0..MaxLux
Requesters == 1..NumRequesters
Consumers == {"display", "led", "kbd"}
DisplayStates == {"UNDEF", "OFF", "LPM_OFF", "LPM_ON", "DIM", "ON"}
DisplayOffStates == {"OFF", "LPM_OFF", "LPM_ON"}
DisplayOnStates == {"ON", "DIM"}
CoverStates == {"COVER_OPEN", "COVER_CLOSED"}
AlsTypes == {"NONE", "TSL2562", "TSL2563", "DIPRO", "AVAGO"}
IomonTypes == {"DIPRO", "AVAGO"}

\* the element of the singleton S.  Below,  Only({ e : x \in {v} })  is e
\* with x naming the value of v: the result of one statement, named for the
\* statements after it.
Only(S) == CHOOSE x \in S : TRUE

MAX(a, b) == IF a > b THEN a ELSE b
MIN(a, b) == IF a < b THEN a ELSE b

(***************************************************************************)
(* ALS profiles.  A table is [range, value]: range[i] = <<low, high>> for  *)
(* i in 0..ALS_RANGES-1, closed by a row <<-1, -1>>, and value[l] for the  *)
(* levels l in 0..ALS_RANGES.                                              *)
(***************************************************************************)
Table(rows, vals) ==
    [range |-> [i \in 0..(ALS_RANGES - 1) |->
                   IF i < Len(rows) THEN rows[i + 1] ELSE <<-1, -1>>],
     value |-> [l \in 0..ALS_RANGES |->
                   IF l < Len(vals) THEN vals[l + 1] ELSE 0]]

\* display tables, one per profile kind (brightness setting 1..5)
display_als_profiles ==
    [k \in ALS_PROFILE_MINIMUM..ALS_PROFILE_MAXIMUM |->
        IF k < ALS_PROFILE_NORMAL
        THEN Table(<<<<1, 2>>, <<-1, -1>>>>, <<20, 60>>)
        ELSE Table(<<<<1, 2>>, <<-1, -1>>>>, <<30, 100>>)]

led_als_profiles ==
    [k \in ALS_PROFILE_MINIMUM..ALS_PROFILE_MAXIMUM |->
        Table(<<<<1, 1>>, <<-1, -1>>>>, <<100, 50>>)]

kbd_als_profiles ==
    [k \in ALS_PROFILE_MINIMUM..ALS_PROFILE_MAXIMUM |->
        Table(<<<<2, 2>>, <<-1, -1>>>>, <<100, 0>>)]

\* the tables get_als_type() selects; the Avago family has no keyboard table
HasProfile(type, c) ==
    CASE c = "display" -> type # "NONE"
      [] c = "led"     -> type # "NONE"
      [] c = "kbd"     -> type \in {"TSL2562", "TSL2563", "DIPRO"}

Profiles(c) ==
    CASE c = "display" -> display_als_profiles
      [] c = "led"     -> led_als_profiles
      [] c = "kbd"     -> kbd_als_profiles

(***************************************************************************)
(* filter_data(): the scan of one profile.  Returns the new level, the     *)
(* band and the brightness value.                                          *)
(***************************************************************************)
RECURSIVE ScanFrom(_, _, _, _)
ScanFrom(p, lux, tmp, i) ==
    IF i >= ALS_RANGES THEN i
    ELSE IF p.range[i][1] = -1 THEN i
    ELSE IF lux < p.range[i][IF ((i + 1) - tmp) > 0 THEN 2 ELSE 1] THEN i
    ELSE ScanFrom(p, lux, tmp, i + 1)

\* filter_data() with one statement changed, named by rule:
\*   "swapped"       the two boundary columns of the comparison exchanged
\*   "inverted"      the scan stops where lux is above the boundary
\*   "atlevel"       the row at the current level compared by its lower boundary
\*   "highsentinel"  the end of the table recognised by the second column
\*   "toplevel"      the level taken from the loop counter after the loop
RECURSIVE ScanBy(_, _, _, _, _)
ScanBy(p, lux, tmp, i, rule) ==
    IF i >= ALS_RANGES THEN i
    ELSE IF p.range[i][IF rule = "highsentinel" THEN 2 ELSE 1] = -1 THEN i
    ELSE IF (IF rule = "inverted"
             THEN lux > p.range[i][IF ((i + 1) - tmp) > 0 THEN 2 ELSE 1]
             ELSE IF rule = "swapped"
             THEN lux < p.range[i][IF ((i + 1) - tmp) > 0 THEN 1 ELSE 2]
             ELSE IF rule = "atlevel"
             THEN lux < p.range[i][IF (i - tmp) > 0 THEN 2 ELSE 1]
             ELSE lux < p.range[i][IF ((i + 1) - tmp) > 0 THEN 2 ELSE 1])
    THEN i
    ELSE ScanBy(p, lux, tmp, i + 1, rule)

FilterBy(p, lux, level, rule) ==
    LET tmp == IF level = -1 THEN 0
               ELSE IF level > ALS_RANGES THEN ALS_RANGES ELSE level
    IN  Only({ [level |-> IF i >= ALS_RANGES /\ rule # "toplevel"
                          THEN ALS_RANGES - 1 ELSE i,
                lower |-> IF i = 0 THEN 0 ELSE p.range[i - 1][1],
                upper |-> IF i >= ALS_RANGES THEN 65535
                          ELSE IF p.range[i][2] = -1 THEN 65535
                          ELSE p.range[i][2],
                value |-> p.value[IF i >= ALS_RANGES /\ rule # "toplevel"
                                  THEN ALS_RANGES - 1 ELSE i]] :
               i \in {ScanBy(p, lux, tmp, 0, rule)} })

filter_data_swapped(profiles, profile, lux, level) ==
    FilterBy(profiles[profile], lux, level, "swapped")

filter_data_inverted(profiles, profile, lux, level) ==
    FilterBy(profiles[profile], lux, level, "inverted")

filter_data_atlevel(profiles, profile, lux, level) ==
    FilterBy(profiles[profile], lux, level, "atlevel")

filter_data_highsentinel(profiles, profile, lux, level) ==
    FilterBy(profiles[profile], lux, level, "highsentinel")

filter_data_toplevel(profiles, profile, lux, level) ==
    FilterBy(profiles[profile], lux, level, "toplevel")

filter_data(profiles, profile, lux, level) ==
    LET tmp == IF level = -1 THEN 0
               ELSE IF level > ALS_RANGES THEN ALS_RANGES ELSE level
    IN  Only({ [level |-> IF i >= ALS_RANGES THEN ALS_RANGES - 1 ELSE i,
                lower |-> IF i = 0 THEN 0 ELSE p.range[i - 1][1],
                upper |-> IF i >= ALS_RANGES THEN 65535
                          ELSE IF p.range[i][2] = -1 THEN 65535
                          ELSE p.range[i][2],
                value |-> p.value[IF i >= ALS_RANGES THEN ALS_RANGES - 1
                                  ELSE i]] :
               p \in {profiles[profile]},
               i \in {ScanFrom(profiles[profile], lux, tmp, 0)} })

\* the elements filter_data() reads: rows of range[] in the loop and for
\* the band, and the entry of value[] it returns
filter_data_reads(profiles, profile, lux, level) ==
    LET tmp == IF level = -1 THEN 0
               ELSE IF level > ALS_RANGES THEN ALS_RANGES ELSE level
    IN  Only({ [range |-> {j \in 0..i : j < ALS_RANGES} \cup
                          (IF i = 0 THEN {} ELSE {i - 1}) \cup
                          (IF i >= ALS_RANGES THEN {} ELSE {i}),
                value |-> {IF i >= ALS_RANGES THEN ALS_RANGES - 1 ELSE i}] :
               i \in {ScanFrom(profiles[profile], lux, tmp, 0)} })

(***************************************************************************)
(* State                                                                   *)
(***************************************************************************)
VARIABLES
    als_type,                     \* memoized result of get_als_type()
    als_threshold_range_path,     \* TRUE: the threshold-control channel exists
    als_available, als_enabled,
    als_lux, delayed_lux,
    display_state, old_display_state,
    als_poll_interval,
    als_poll_timer_cb_id,         \* 0 or the id of the poll timer source
    als_iomon_id,                 \* 0 (NULL) or the id of the I/O monitor
    brightness_delay_timer_cb_id, \* 0 or the id of the step-down timer source
    als_level,                    \* display_als_level, led_als_level, kbd_als_level
    brightness_lower,             \* display_/led_/kbd_brightness_lower
    brightness_upper,             \* display_/led_/kbd_brightness_upper
    cached_lower, cached_upper,   \* statics of adjust_als_thresholds()
    als_external_refcount,
    als_owner_monitor_list,       \* the monitored senders
    proximity_sensor_state,       \* cached value of proximity_sensor_pipe
    brightness_step_down_policy,  \* "direct" or "unblank"
    pipe_input,                   \* cached input of the three brightness pipes
    pipe_output,                  \* last value the pipes handed to their triggers
    threshold_file,               \* << >> or the band last written to the channel
    delay_sources,                \* step-down timer sources pending in the main loop
    poll_sources,                 \* poll timer sources pending in the main loop
    iomon_registered,             \* I/O monitors registered in the main loop
    als_paths,                    \* the paths, tables and flag get_als_type() selects
    sysfs,                        \* the device nodes and the calibration channels
    camera_active_state_iomon_id, \* camera module: 0 (NULL) or the handle
    camera_popout_state_iomon_id, \* camera module: 0 (NULL) or the handle
    ev                            \* what the last callback did

vars == <<als_type, als_threshold_range_path, als_available, als_enabled,
          als_lux, delayed_lux, display_state, old_display_state,
          als_poll_interval, als_poll_timer_cb_id, als_iomon_id,
          brightness_delay_timer_cb_id, als_level, brightness_lower,
          brightness_upper, cached_lower, cached_upper,
          als_external_refcount, als_owner_monitor_list,
          proximity_sensor_state, brightness_step_down_policy, pipe_input, pipe_output, threshold_file,
          delay_sources, poll_sources, iomon_registered, als_paths, sysfs,
          camera_active_state_iomon_id, camera_popout_state_iomon_id, ev>>

St ==
    [als_type |-> als_type,
     als_threshold_range_path |-> als_threshold_range_path,
     als_available |-> als_available, als_enabled |-> als_enabled,
     als_lux |-> als_lux, delayed_lux |-> delayed_lux,
     display_state |-> display_state, old_display_state |-> old_display_state,
     als_poll_interval |-> als_poll_interval,
     als_poll_timer_cb_id |-> als_poll_timer_cb_id,
     als_iomon_id |-> als_iomon_id,
     brightness_delay_timer_cb_id |-> brightness_delay_timer_cb_id,
     als_level |-> als_level, brightness_lower |-> brightness_lower,
     brightness_upper |-> brightness_upper,
     cached_lower |-> cached_lower, cached_upper |-> cached_upper,
     als_external_refcount |-> als_external_refcount,
     als_owner_monitor_list |-> als_owner_monitor_list,
     proximity_sensor_state |-> proximity_sensor_state,
     brightness_step_down_policy |-> brightness_step_down_policy,
     pipe_input |-> pipe_input, pipe_output |-> pipe_output,
     threshold_file |-> threshold_file,
     delay_sources |-> delay_sources, poll_sources |-> poll_sources,
     iomon_registered |-> iomon_registered,
     als_paths |-> als_paths, sysfs |-> sysfs,
     camera_active_state_iomon_id |-> camera_active_state_iomon_id,
     camera_popout_state_iomon_id |-> camera_popout_state_iomon_id,
     ev |-> ev]

Set(t) ==
    \E r \in {t} :
      /\ als_type' = r.als_type
      /\ als_threshold_range_path' = r.als_threshold_range_path
      /\ als_available' = r.als_available
      /\ als_enabled' = r.als_enabled
      /\ als_lux' = r.als_lux
      /\ delayed_lux' = r.delayed_lux
      /\ display_state' = r.display_state
      /\ old_display_state' = r.old_display_state
      /\ als_poll_interval' = r.als_poll_interval
      /\ als_poll_timer_cb_id' = r.als_poll_timer_cb_id
      /\ als_iomon_id' = r.als_iomon_id
      /\ brightness_delay_timer_cb_id' = r.brightness_delay_timer_cb_id
      /\ als_level' = r.als_level
      /\ brightness_lower' = r.brightness_lower
      /\ brightness_upper' = r.brightness_upper
      /\ cached_lower' = r.cached_lower
      /\ cached_upper' = r.cached_upper
      /\ als_external_refcount' = r.als_external_refcount
      /\ als_owner_monitor_list' = r.als_owner_monitor_list
      /\ proximity_sensor_state' = r.proximity_sensor_state
      /\ brightness_step_down_policy' = r.brightness_step_down_policy
      /\ pipe_input' = r.pipe_input
      /\ pipe_output' = r.pipe_output
      /\ threshold_file' = r.threshold_file
      /\ delay_sources' = r.delay_sources
      /\ poll_sources' = r.poll_sources
      /\ iomon_registered' = r.iomon_registered
      /\ als_paths' = r.als_paths
      /\ sysfs' = r.sysfs
      /\ camera_active_state_iomon_id' = r.camera_active_state_iomon_id
      /\ camera_popout_state_iomon_id' = r.camera_popout_state_iomon_id
      /\ ev' = r.ev

(***************************************************************************)
(* The record of the last callback: its name, the reading or sender it got *)
(* and the calls it made that leave the module.                            *)
(***************************************************************************)
NoEv(op) ==
    [op |-> op,
     lux |-> -1,                \* the reading handed to the lux update, if any
     no_delay |-> FALSE,        \* the no_delay argument of that lux update
     sender |-> 0,              \* the sender of the D-Bus message
     writes |-> << >>,          \* bands written to the threshold channel
     pipes |-> FALSE,           \* the brightness pipes were re-executed
     armed |-> 0,               \* calls of g_timeout_add_seconds()
     removed |-> 0,             \* calls of g_source_remove() on the delay timer
     dropped |-> 0,             \* sensor sources unregistered or removed
     retval |-> 0,              \* result of the owner monitor add/remove
     held |-> FALSE,            \* the sender was monitored before the call
     args |-> << >>,            \* the arguments of a function called directly
     order |-> << >>,           \* the steps taken, in the order they were taken
     reply |-> "none", status |-> FALSE]

Begin(s, op) == [s EXCEPT !.ev = NoEv(op)]


(***************************************************************************)
(* get_als_type(): probes the device nodes in a fixed order and selects    *)
(* the paths, the tables and the median flag of the first one it can read. *)
(* The result is kept in a static: only the first call probes.             *)
(***************************************************************************)
\* the device nodes, named after the sensor family they belong to
AlsNodes == {"AVAGO", "DIPRO", "TSL2563", "TSL2562"}

NoPaths ==
    [als_device_path |-> "NULL", als_lux_path |-> "NULL",
     als_calib0_path |-> "NULL", als_calib1_path |-> "NULL",
     display_als_profiles |-> "NULL", led_als_profiles |-> "NULL",
     kbd_als_profiles |-> "NULL", use_median_filter |-> FALSE]

\* the assignments of one branch of the probe
Selected(type) ==
    CASE type = "AVAGO" ->
           [NoPaths EXCEPT !.als_device_path = "AVAGO",
                           !.als_calib0_path = "AVAGO",
                           !.display_als_profiles = "rm696",
                           !.led_als_profiles = "rm696",
                           !.use_median_filter = FALSE]
      [] type = "DIPRO" ->
           [NoPaths EXCEPT !.als_device_path = "DIPRO",
                           !.als_calib0_path = "DIPRO",
                           !.display_als_profiles = "rm680",
                           !.led_als_profiles = "rm680",
                           !.kbd_als_profiles = "rm680",
                           !.use_median_filter = FALSE]
      [] type = "TSL2563" ->
           [NoPaths EXCEPT !.als_lux_path = "TSL2563",
                           !.als_calib0_path = "TSL2563",
                           !.als_calib1_path = "TSL2563",
                           !.display_als_profiles = "rx51",
                           !.led_als_profiles = "rx51",
                           !.kbd_als_profiles = "rx51",
                           !.use_median_filter = TRUE]
      [] type = "TSL2562" ->
           [NoPaths EXCEPT !.als_lux_path = "TSL2562",
                           !.als_calib0_path = "TSL2562",
                           !.als_calib1_path = "TSL2562",
                           !.display_als_profiles = "rx44",
                           !.led_als_profiles = "rx44",
                           !.kbd_als_profiles = "rx44",
                           !.use_median_filter = TRUE]
      [] OTHER -> NoPaths

\* the probe: order gives the device nodes in the order they are tried
Probe(s, order) ==
    LET found == { i \in 1..Len(order) : order[i] \in s.sysfs.readable }
        type  == IF found = {} THEN "NONE"
                 ELSE order[CHOOSE i \in found : \A j \in found : i <= j]
    IN  [s EXCEPT !.als_type = type,
                  !.als_paths = Selected(type),
                  !.als_threshold_range_path =
                      (type \in IomonTypes) /\ s.sysfs.writable,
                  !.sysfs.probes = @ + 1]

\* as get_als_type(), but without the static: every call probes again
get_als_type_reprobe(s) ==
    Probe(s, <<"AVAGO", "DIPRO", "TSL2563", "TSL2562">>)

\* as get_als_type(), but the poll-based families are tried first
get_als_type_tslfirst(s) ==
    IF s.als_type # "UNSET" THEN s
    ELSE Probe(s, <<"TSL2563", "TSL2562", "AVAGO", "DIPRO">>)

\* the state after the call; the value returned is its als_type
get_als_type(s) ==
    IF s.als_type # "UNSET" THEN s
    ELSE Probe(s, <<"AVAGO", "DIPRO", "TSL2563", "TSL2562">>)

(***************************************************************************)
(* calibrate_als(): writes the calibration words of the blob the           *)
(* calibration store returns to the calibration channels of the sensor.    *)
(* sysinfo.ok: the retrieval succeeded; sysinfo.len: the length of the     *)
(* blob in bytes; sysinfo.words: its whole 32-bit words.                   *)
(***************************************************************************)
\* the 32-bit word a memcpy() of four bytes reads at a byte offset
WordAt(sysinfo, offset) == sysinfo.words[(offset \div 4) + 1]

\* the writes, for the offsets the two words are copied from
CalibrateFrom(s, sysinfo, aligned, offset0, offset1) ==
    IF (s.als_paths.als_calib0_path = "NULL") /\
       (s.als_paths.als_calib1_path = "NULL")
    THEN s
    ELSE IF ~sysinfo.ok THEN s
    ELSE IF aligned /\ (sysinfo.len % 4 # 0) THEN s
    ELSE IF sysinfo.len \div 4 = 0 THEN s
    ELSE LET count  == sysinfo.len \div 4
             calib1 == IF count >= 2 THEN WordAt(sysinfo, offset1) ELSE 0
             calib0 == WordAt(sysinfo, offset0)
         IN  [s EXCEPT !.sysfs.calib0 =
                           IF s.als_paths.als_calib0_path # "NULL"
                           THEN Append(@, calib0) ELSE @,
                       !.sysfs.calib1 =
                           IF (s.als_paths.als_calib1_path # "NULL") /\
                              (count > 1)
                           THEN Append(@, calib1) ELSE @]

\* as calibrate_als(), but without the test of the alignment
calibrate_als_unaligned(s, sysinfo) ==
    CalibrateFrom(s, sysinfo, FALSE, 0, 0)

\* both values are copied from the start of the blob
calibrate_als(s, sysinfo) ==
    CalibrateFrom(s, sysinfo, TRUE, 0, 0)

(***************************************************************************)
(* adjust_als_thresholds(): the only writer of the threshold channel.      *)
(***************************************************************************)
\* as adjust_als_thresholds(), without the special case of (0,65535): the
\* band that disables the interrupts is cached like any other
adjust_als_thresholds_cacheall(s, lower, upper) ==
    IF ~s.als_threshold_range_path THEN s
    ELSE
    LET force   == (lower > upper) \/ ((lower = upper) /\ (lower = 0))
        restore == ~force /\ (lower = upper) /\ (lower = -1)
        band    == IF force THEN <<0, 0>>
                   ELSE IF restore
                        THEN IF s.cached_lower = -1 THEN <<0, 0>>
                             ELSE <<s.cached_lower, s.cached_upper>>
                   ELSE <<lower, upper>>
        cache   == ~force /\ ~restore
    IN  [s EXCEPT !.cached_lower = IF cache THEN lower ELSE @,
                  !.cached_upper = IF cache THEN upper ELSE @,
                  !.threshold_file = band,
                  !.ev.writes = Append(@, band),
                  !.ev.order = Append(@, "write")]

\* as adjust_als_thresholds(), without the test for the channel
adjust_als_thresholds_nopath(s, lower, upper) ==
    LET force   == (lower > upper) \/ ((lower = upper) /\ (lower = 0))
        restore == ~force /\ (lower = upper) /\ (lower = -1)
        disable == ~force /\ ~restore /\ (lower = 0) /\ (upper = 65535)
        band    == IF force THEN <<0, 0>>
                   ELSE IF restore
                        THEN IF s.cached_lower = -1 THEN <<0, 0>>
                             ELSE <<s.cached_lower, s.cached_upper>>
                   ELSE <<lower, upper>>
        cache   == ~force /\ ~restore /\ ~disable
    IN  [s EXCEPT !.cached_lower = IF cache THEN lower ELSE @,
                  !.cached_upper = IF cache THEN upper ELSE @,
                  !.threshold_file = band,
                  !.ev.writes = Append(@, band),
                  !.ev.order = Append(@, "write")]

adjust_als_thresholds(s, lower, upper) ==
    IF ~s.als_threshold_range_path THEN s
    ELSE
    LET force   == (lower > upper) \/ ((lower = upper) /\ (lower = 0))
        restore == ~force /\ (lower = upper) /\ (lower = -1)
        disable == ~force /\ ~restore /\ (lower = 0) /\ (upper = 65535)
        band    == IF force THEN <<0, 0>>
                   ELSE IF restore
                        THEN IF s.cached_lower = -1 THEN <<0, 0>>
                             ELSE <<s.cached_lower, s.cached_upper>>
                   ELSE <<lower, upper>>
        cache   == ~force /\ ~restore /\ ~disable
    IN  [s EXCEPT !.cached_lower = IF cache THEN lower ELSE @,
                  !.cached_upper = IF cache THEN upper ELSE @,
                  !.threshold_file = band,
                  !.ev.writes = Append(@, band),
                  !.ev.order = Append(@, "write")]

(***************************************************************************)
(* The three brightness filters and the pipes they sit on.                 *)
(***************************************************************************)
\* the consumer's level and band after filter_data()
Filtered(s, c, r) ==
    [s EXCEPT !.als_level[c] = r.level,
              !.brightness_lower[c] = r.lower,
              !.brightness_upper[c] = r.upper]

\* as display_brightness_filter(), without the test of the display state
display_brightness_filter_anystate(s, data) ==
    LET raw0 == data - 1
        raw  == IF raw0 < ALS_PROFILE_MINIMUM THEN ALS_PROFILE_MINIMUM
                ELSE IF raw0 > ALS_PROFILE_MAXIMUM THEN ALS_PROFILE_MAXIMUM
                ELSE raw0
    IN  IF s.als_enabled /\ HasProfile(s.als_type, "display")
        THEN Only({ [s |-> Filtered(s, "display", r), out |-> r.value] :
                    r \in {filter_data(display_als_profiles, raw, s.als_lux,
                                       s.als_level["display"])} })
        ELSE [s |-> s, out |-> (raw + 1) * 20]

\* returns [s, out]: the state after the filter and the filtered value
display_brightness_filter(s, data) ==
    LET raw0 == data - 1
        raw  == IF raw0 < ALS_PROFILE_MINIMUM THEN ALS_PROFILE_MINIMUM
                ELSE IF raw0 > ALS_PROFILE_MAXIMUM THEN ALS_PROFILE_MAXIMUM
                ELSE raw0
    IN  IF s.display_state \in DisplayOffStates
        THEN [s |-> s, out |-> 0]
        ELSE IF s.als_enabled /\ HasProfile(s.als_type, "display")
        THEN Only({ [s |-> Filtered(s, "display", r), out |-> r.value] :
                    r \in {filter_data(display_als_profiles, raw, s.als_lux,
                                       s.als_level["display"])} })
        ELSE [s |-> s, out |-> (raw + 1) * 20]

\* as led_brightness_filter(), without the test of als_enabled
led_brightness_filter_always(s, data) ==
    IF HasProfile(s.als_type, "led")
    THEN Only({ [s |-> Filtered(s, "led", r),
                 out |-> (data * r.value) \div 100] :
                r \in {filter_data(led_als_profiles, ALS_PROFILE_NORMAL,
                                   s.als_lux, s.als_level["led"])} })
    ELSE [s |-> s, out |-> data]

led_brightness_filter(s, data) ==
    IF s.als_enabled /\ HasProfile(s.als_type, "led")
    THEN Only({ [s |-> Filtered(s, "led", r),
                 out |-> (data * r.value) \div 100] :
                r \in {filter_data(led_als_profiles, ALS_PROFILE_NORMAL,
                                   s.als_lux, s.als_level["led"])} })
    ELSE [s |-> s, out |-> data]

key_backlight_filter(s, data) ==
    IF s.als_enabled /\ HasProfile(s.als_type, "kbd")
    THEN Only({ [s |-> Filtered(s, "kbd", r),
                 out |-> (data * r.value) \div 100] :
                r \in {filter_data(kbd_als_profiles, ALS_PROFILE_NORMAL,
                                   s.als_lux, s.als_level["kbd"])} })
    ELSE [s |-> s, out |-> data]

\* execute_datapipe(&pipe, NULL, USE_CACHE, DONT_CACHE_INDATA): the cached
\* input goes through the pipe's filter and the result to its triggers
execute_datapipe(s, c) ==
    Only({ [f.s EXCEPT !.pipe_output[c] = f.out,
                       !.ev.order = Append(@, c)] :
           f \in {CASE c = "display" ->
                         display_brightness_filter(s, s.pipe_input[c])
                    [] c = "led" ->
                         led_brightness_filter(s, s.pipe_input[c])
                    [] c = "kbd" ->
                         key_backlight_filter(s, s.pipe_input[c])} })

\* "Re-filter the brightness": display, LED, keyboard, in this order
RefilterBrightness(s) ==
    Only({ Only({ Only({ [s3 EXCEPT !.ev.pipes = TRUE] :
                         s3 \in {execute_datapipe(s2, "kbd")} }) :
                  s2 \in {execute_datapipe(s1, "led")} }) :
           s1 \in {execute_datapipe(s, "display")} })

\* the merged band of the consumers that have a table
MergedLower(s) ==
    LET l1 == s.brightness_lower["display"]
        l2 == IF HasProfile(s.als_type, "led")
              THEN MAX(l1, s.brightness_lower["led"]) ELSE l1
    IN  IF HasProfile(s.als_type, "kbd")
        THEN MAX(l2, s.brightness_lower["kbd"]) ELSE l2

\* as MergedUpper(), but only the display's upper bound is taken
MergedUpper_display(s) == s.brightness_upper["display"]

MergedUpper(s) ==
    LET u1 == s.brightness_upper["display"]
        u2 == IF HasProfile(s.als_type, "led")
              THEN MIN(u1, s.brightness_upper["led"]) ELSE u1
    IN  IF HasProfile(s.als_type, "kbd")
        THEN MIN(u2, s.brightness_upper["kbd"]) ELSE u2

\* as Readjust(), but the band is merged and written before the brightness
\* is re-filtered
Readjust_writefirst(s) ==
    Only({ RefilterBrightness(s3) :
           s3 \in {IF s.als_external_refcount = 0
                   THEN adjust_als_thresholds(s, MergedLower(s),
                                              MergedUpper(s))
                   ELSE s} })

\* as Readjust(), without the test of the external ownership count
Readjust_unguarded(s) ==
    Only({ adjust_als_thresholds(s3, MergedLower(s3), MergedUpper(s3)) :
           s3 \in {RefilterBrightness(s)} })

\* the tail shared by the lux updates: re-filter the brightness, then write
\* the merged band unless the sensor is externally owned
Readjust(s) ==
    Only({ IF s3.als_external_refcount = 0
           THEN adjust_als_thresholds(s3, MergedLower(s3), MergedUpper(s3))
           ELSE s3 :
           s3 \in {RefilterBrightness(s)} })

(***************************************************************************)
(* Sensor reads.  median_filter.c is outside the modelled sources: where   *)
(* the software median filter is in use its result is an input of the      *)
(* callback (any lux value), elsewhere the filter is the identity.         *)
(***************************************************************************)
use_median_filter(s) == s.als_paths.use_median_filter

als_median_filter_map(s, value, filtered) ==
    IF use_median_filter(s) THEN filtered ELSE value

\* rd: -1 for a failed or short read, else the lux read (G_MAXINT: saturated)
als_read_value_filtered(s, rd, filtered) ==
    IF ~s.als_enabled THEN -2
    ELSE IF rd = -1 THEN -1
    ELSE als_median_filter_map(s, rd, filtered)

(***************************************************************************)
(* Timers and the I/O monitor                                              *)
(***************************************************************************)
cancel_brightness_delay_timer(s) ==
    IF s.brightness_delay_timer_cb_id # 0
    THEN [s EXCEPT !.brightness_delay_timer_cb_id = 0,
                   !.delay_sources = IF @ > 0 THEN @ - 1 ELSE 0,
                   !.ev.removed = @ + 1]
    ELSE s

\* as cancel_als_poll_timer(), but the monitor is unregistered and the
\* source removed whether or not an id is recorded
cancel_als_poll_timer_unguarded(s) ==
    [s EXCEPT !.als_poll_timer_cb_id = 0,
              !.poll_sources = IF @ > 0 THEN @ - 1 ELSE 0,
              !.als_iomon_id = 0,
              !.iomon_registered = IF @ > 0 THEN @ - 1 ELSE 0,
              !.ev.dropped = @ + 2]

cancel_als_poll_timer(s) ==
    Only({ IF s1.als_poll_timer_cb_id # 0
           THEN [s1 EXCEPT !.als_poll_timer_cb_id = 0,
                           !.poll_sources = IF @ > 0 THEN @ - 1 ELSE 0,
                           !.ev.dropped = @ + 1]
           ELSE s1 :
           s1 \in {IF s.als_iomon_id # 0
                   THEN [s EXCEPT !.als_iomon_id = 0,
                                  !.iomon_registered =
                                      IF @ > 0 THEN @ - 1 ELSE 0,
                                  !.ev.dropped = @ + 1]
                   ELSE s} })

setup_als_poll_timer(s) ==
    IF s.als_poll_interval = 0 THEN cancel_als_poll_timer(s)
    ELSE IF s.als_type \in IomonTypes
    THEN IF s.als_iomon_id # 0 THEN s
         ELSE [s EXCEPT !.als_iomon_id = 1, !.iomon_registered = @ + 1]
    ELSE [cancel_als_poll_timer(s)
            EXCEPT !.als_poll_timer_cb_id = 1, !.poll_sources = @ + 1]

(***************************************************************************)
(* als_iomon_common(): one lux update of the interrupt driven families     *)
(***************************************************************************)
\* as als_iomon_common_at(), but every step-down reading restarts the timer
als_iomon_common_restart(s, lux, no_delay, filtered) ==
    LET new_lux == als_median_filter_map(s, lux, filtered)
    IN  IF (new_lux = -1) \/
           ((s.als_lux = new_lux) /\ (s.brightness_lower["display"] # -1))
        THEN s
        ELSE IF s.proximity_sensor_state = "COVER_CLOSED" THEN s
        ELSE IF (s.als_lux > new_lux) /\ ~no_delay
        THEN [cancel_brightness_delay_timer(s)
                EXCEPT !.brightness_delay_timer_cb_id = 1,
                       !.delay_sources = @ + 1,
                       !.ev.armed = @ + 1,
                       !.delayed_lux = lux]
        ELSE Readjust([(IF s.als_lux > new_lux
                        THEN [s EXCEPT !.brightness_delay_timer_cb_id = 0]
                        ELSE cancel_brightness_delay_timer(s))
                          EXCEPT !.als_lux = new_lux,
                                 !.ev.order = Append(@, "lux")])

\* as als_iomon_common_at(), but without the step-down delay
als_iomon_common_nodelay(s, lux, no_delay, filtered) ==
    LET new_lux == als_median_filter_map(s, lux, filtered)
    IN  IF (new_lux = -1) \/
           ((s.als_lux = new_lux) /\ (s.brightness_lower["display"] # -1))
        THEN s
        ELSE IF s.proximity_sensor_state = "COVER_CLOSED" THEN s
        ELSE Readjust([(IF (s.als_lux > new_lux) /\ no_delay
                        THEN [s EXCEPT !.brightness_delay_timer_cb_id = 0]
                        ELSE cancel_brightness_delay_timer(s))
                          EXCEPT !.als_lux = new_lux,
                                 !.ev.order = Append(@, "lux")])

\* the body of als_iomon_common() on the state s
\* as als_iomon_common_at(), without the test for an unchanged lux
als_iomon_common_noequal(s, lux, no_delay, filtered) ==
    LET new_lux == als_median_filter_map(s, lux, filtered)
    IN  IF new_lux = -1 THEN s
        ELSE IF s.proximity_sensor_state = "COVER_CLOSED" THEN s
        ELSE IF (s.als_lux > new_lux) /\ ~no_delay
        THEN IF s.brightness_delay_timer_cb_id = 0
             THEN [s EXCEPT !.brightness_delay_timer_cb_id = 1,
                            !.delay_sources = @ + 1,
                            !.ev.armed = @ + 1,
                            !.delayed_lux = lux]
             ELSE [s EXCEPT !.delayed_lux = lux]
        ELSE Readjust([(IF s.als_lux > new_lux
                        THEN [s EXCEPT !.brightness_delay_timer_cb_id = 0]
                        ELSE cancel_brightness_delay_timer(s))
                          EXCEPT !.als_lux = new_lux,
                                 !.ev.order = Append(@, "lux")])

\* as als_iomon_common_at(), without the test of the proximity sensor
als_iomon_common_noprox(s, lux, no_delay, filtered) ==
    LET new_lux == als_median_filter_map(s, lux, filtered)
    IN  IF (new_lux = -1) \/
           ((s.als_lux = new_lux) /\ (s.brightness_lower["display"] # -1))
        THEN s
        ELSE IF (s.als_lux > new_lux) /\ ~no_delay
        THEN IF s.brightness_delay_timer_cb_id = 0
             THEN [s EXCEPT !.brightness_delay_timer_cb_id = 1,
                            !.delay_sources = @ + 1,
                            !.ev.armed = @ + 1,
                            !.delayed_lux = lux]
             ELSE [s EXCEPT !.delayed_lux = lux]
        ELSE Readjust([(IF s.als_lux > new_lux
                        THEN [s EXCEPT !.brightness_delay_timer_cb_id = 0]
                        ELSE cancel_brightness_delay_timer(s))
                          EXCEPT !.als_lux = new_lux,
                                 !.ev.order = Append(@, "lux")])

als_iomon_common_at(s, lux, no_delay, filtered) ==
    LET new_lux == als_median_filter_map(s, lux, filtered)
    IN  IF (new_lux = -1) \/
           ((s.als_lux = new_lux) /\ (s.brightness_lower["display"] # -1))
        THEN s
        ELSE IF s.proximity_sensor_state = "COVER_CLOSED" THEN s
        ELSE IF (s.als_lux > new_lux) /\ ~no_delay
        THEN \* step-down: arm the timer if none is recorded, keep the value
             IF s.brightness_delay_timer_cb_id = 0
             THEN [s EXCEPT !.brightness_delay_timer_cb_id = 1,
                            !.delay_sources = @ + 1,
                            !.ev.armed = @ + 1,
                            !.delayed_lux = lux]
             ELSE [s EXCEPT !.delayed_lux = lux]
        ELSE Readjust([(IF s.als_lux > new_lux
                        THEN [s EXCEPT !.brightness_delay_timer_cb_id = 0]
                        ELSE cancel_brightness_delay_timer(s))
                          EXCEPT !.als_lux = new_lux,
                                 !.ev.order = Append(@, "lux")])

\* the call: the reading and no_delay are noted in the callback's record
als_iomon_common(s0, lux, no_delay, filtered) ==
    Only({ als_iomon_common_at(s, lux, no_delay, filtered) :
           s \in {[s0 EXCEPT !.ev.lux = lux, !.ev.no_delay = no_delay]} })

(***************************************************************************)
(* Callbacks of the main loop                                              *)
(***************************************************************************)
\* the step-down timer fired; the source goes away when the callback
\* returns FALSE
brightness_delay_timer_cb(s, filtered) ==
    Only({ [s1 EXCEPT !.delay_sources =
                          IF s1.ev.removed > 0 THEN @
                          ELSE IF @ > 0 THEN @ - 1 ELSE 0,
                      !.ev.status = FALSE] :
           s1 \in {als_iomon_common(Begin(s, "brightness_delay_timer_cb"),
                                    s.delayed_lux, TRUE, filtered)} })

als_dipro_iomon_cb(s, bytes_ok, lux, filtered) ==
    Only({ IF ~bytes_ok
           THEN cancel_als_poll_timer([s0 EXCEPT !.als_poll_timer_cb_id = 0])
           ELSE als_iomon_common(s0, lux, FALSE, filtered) :
           s0 \in {Begin(s, "als_dipro_iomon_cb")} })

als_avago_iomon_cb(s, bytes_ok, updated, saturated, lux, filtered) ==
    Only({ IF ~bytes_ok
           THEN cancel_als_poll_timer([s0 EXCEPT !.als_poll_timer_cb_id = 0])
           ELSE IF ~updated THEN s0
           ELSE IF saturated
           THEN als_iomon_common(s0, G_MAXINT, FALSE, filtered)
           ELSE als_iomon_common(s0, lux, FALSE, filtered) :
           s0 \in {Begin(s, "als_avago_iomon_cb")} })

als_poll_timer_cb(s, rd, filtered) ==
    Only({ IF new_lux = -2
           THEN \* ALS disabled: the timer ends itself
                [s0 EXCEPT !.als_poll_timer_cb_id = 0,
                           !.poll_sources = IF @ > 0 THEN @ - 1 ELSE 0,
                           !.ev.status = FALSE]
           ELSE IF (new_lux = -1) \/
                   ((s0.als_lux = new_lux) /\
                    (s0.brightness_lower["display"] # -1))
           THEN [s0 EXCEPT !.ev.lux = IF new_lux >= 0 THEN new_lux ELSE -1,
                           !.ev.status = TRUE]
           ELSE Readjust([s0 EXCEPT !.ev.lux = new_lux, !.als_lux = new_lux,
                                    !.ev.order = Append(@, "lux"),
                                    !.ev.status = TRUE]) :
           s0 \in {Begin(s, "als_poll_timer_cb")},
           new_lux \in {als_read_value_filtered(s, rd, filtered)} })

\* the off -> on/dim branch of display_state_trigger(): the sources are
\* cancelled, the sensor is read, the brightness re-filtered when the
\* reading differs or the unblank policy is in use, the band restored.
\* The reading stays in the local new_lux, noted in the callback's record.
DisplayWakes(s1, rd, filtered) ==
    Only({ Only({ adjust_als_thresholds(b, -1, -1) :
                  b \in {IF (new_lux >= 0) /\
                            ((a.als_lux # new_lux) \/
                             (a.brightness_step_down_policy = "unblank"))
                         THEN RefilterBrightness(
                                  [a EXCEPT !.ev.lux = new_lux])
                         ELSE [a EXCEPT !.ev.lux = new_lux]} }) :
           a \in {cancel_als_poll_timer(s1)},
           new_lux \in {als_read_value_filtered(s1, rd, filtered)} })

display_state_trigger(s, data, rd, filtered) ==
    Only({ IF ~s0.als_enabled
           THEN [s0 EXCEPT !.old_display_state = data]
           ELSE
           Only({ Only({ [(IF (s2.als_poll_interval # s0.als_poll_interval) \/
                              ((s2.als_poll_timer_cb_id = 0) /\
                               (s2.als_iomon_id = 0))
                           THEN setup_als_poll_timer(s2) ELSE s2)
                             EXCEPT !.old_display_state = data] :
                         s2 \in {IF (s1.old_display_state \in DisplayOffStates)
                                    /\ (data \in DisplayOnStates)
                                 THEN DisplayWakes(s1, rd, filtered)
                                 ELSE IF (s1.old_display_state
                                              \in DisplayOnStates) /\
                                         (data \in DisplayOffStates)
                                 THEN adjust_als_thresholds(s1, 0, 65535)
                                 ELSE s1} }) :
                  s1 \in {[s0 EXCEPT !.als_poll_interval =
                             IF data \in DisplayOffStates
                             THEN ALS_DISPLAY_OFF_POLL_FREQ
                             ELSE IF data = "DIM"
                             THEN ALS_DISPLAY_DIM_POLL_FREQ
                             ELSE ALS_DISPLAY_ON_POLL_FREQ]} }) :
           s0 \in {[Begin(s, "display_state_trigger")
                      EXCEPT !.display_state = data]} })

\* as als_gconf_cb(), but the setting is taken whether or not a sensor is
\* available
als_gconf_cb_always(s, unset, value) ==
    IF unset
    THEN [Begin(s, "als_gconf_cb") EXCEPT !.ev.args = <<unset, value>>]
    ELSE [Begin(s, "als_gconf_cb") EXCEPT !.ev.args = <<unset, value>>,
                                          !.als_enabled = value]

\* the ALS-enabled setting changed (unset: the key was removed)
als_gconf_cb(s, unset, value) ==
    IF unset
    THEN [Begin(s, "als_gconf_cb") EXCEPT !.ev.args = <<unset, value>>]
    ELSE IF s.als_available
    THEN [Begin(s, "als_gconf_cb") EXCEPT !.ev.args = <<unset, value>>,
                                          !.als_enabled = value]
    ELSE [Begin(s, "als_gconf_cb") EXCEPT !.ev.args = <<unset, value>>]

(***************************************************************************)
(* External ownership.  mce_dbus_owner_monitor_add() / _remove() live in   *)
(* mce-dbus.c; they are modelled by their contract: the list is the set of *)
(* tracked senders, the result is the size of the set after the call, or   *)
(* -1 when the call fails.                                                 *)
(***************************************************************************)
mce_dbus_owner_monitor_add(service, list, max_num) ==
    IF service \in list
    THEN [list |-> list, retval |-> Cardinality(list)]
    ELSE IF Cardinality(list) >= max_num
    THEN [list |-> list, retval |-> -1]
    ELSE [list |-> list \cup {service}, retval |-> Cardinality(list) + 1]

mce_dbus_owner_monitor_remove(service, list) ==
    IF service \notin list
    THEN [list |-> list, retval |-> -1]
    ELSE [list |-> list \ {service}, retval |-> Cardinality(list) - 1]

\* the reply of a method call: sent unless the caller asked for none
SendReply(s, no_reply) ==
    IF ~no_reply
    THEN [s EXCEPT !.ev.reply = "method_return", !.ev.status = TRUE]
    ELSE [s EXCEPT !.ev.status = TRUE]

\* the callback's record with the sender and the monitor's result r
Monitored(s, op, sender, r) ==
    [Begin(s, op) EXCEPT !.ev.sender = sender,
                         !.ev.retval = r.retval,
                         !.ev.held = sender \in s.als_owner_monitor_list,
                         !.als_owner_monitor_list = r.list]

\* as als_enable_req_dbus_cb(), but (0,0) is forced by every enable that
\* succeeds, whatever the count
als_enable_req_dbus_cb_always(s, sender, no_reply) ==
    IF sender = 0
    THEN [Begin(s, "als_enable_req_dbus_cb") EXCEPT !.ev.sender = sender]
    ELSE
    Only({ SendReply(
               IF r.retval = -1
               THEN Monitored(s, "als_enable_req_dbus_cb", sender, r)
               ELSE adjust_als_thresholds(
                        [Monitored(s, "als_enable_req_dbus_cb", sender, r)
                           EXCEPT !.als_external_refcount = r.retval], 0, 0),
               no_reply) :
           r \in {mce_dbus_owner_monitor_add(sender, s.als_owner_monitor_list,
                                             ALS_MAX_MONITORED)} })

\* as als_enable_req_dbus_cb(), but the result of the add is not checked
als_enable_req_dbus_cb_unchecked(s, sender, no_reply) ==
    IF sender = 0
    THEN [Begin(s, "als_enable_req_dbus_cb") EXCEPT !.ev.sender = sender]
    ELSE
    Only({ SendReply(
               IF r.retval = 1
               THEN adjust_als_thresholds(
                        [Monitored(s, "als_enable_req_dbus_cb", sender, r)
                           EXCEPT !.als_external_refcount = r.retval], 0, 0)
               ELSE [Monitored(s, "als_enable_req_dbus_cb", sender, r)
                       EXCEPT !.als_external_refcount = r.retval],
               no_reply) :
           r \in {mce_dbus_owner_monitor_add(sender, s.als_owner_monitor_list,
                                             ALS_MAX_MONITORED)} })

\* as als_enable_req_dbus_cb(), but the count is incremented by every enable
\* that succeeds instead of being taken from the monitor
als_enable_req_dbus_cb_counting(s, sender, no_reply) ==
    IF sender = 0
    THEN [Begin(s, "als_enable_req_dbus_cb") EXCEPT !.ev.sender = sender]
    ELSE
    Only({ SendReply(
               IF r.retval = -1
               THEN Monitored(s, "als_enable_req_dbus_cb", sender, r)
               ELSE IF s.als_external_refcount = 0
               THEN adjust_als_thresholds(
                        [Monitored(s, "als_enable_req_dbus_cb", sender, r)
                           EXCEPT !.als_external_refcount = @ + 1], 0, 0)
               ELSE [Monitored(s, "als_enable_req_dbus_cb", sender, r)
                       EXCEPT !.als_external_refcount = @ + 1],
               no_reply) :
           r \in {mce_dbus_owner_monitor_add(sender, s.als_owner_monitor_list,
                                             ALS_MAX_MONITORED)} })

\* sender 0 stands for a message without sender (NULL)
als_enable_req_dbus_cb(s, sender, no_reply) ==
    IF sender = 0
    THEN [Begin(s, "als_enable_req_dbus_cb") EXCEPT !.ev.sender = sender]
    ELSE
    Only({ SendReply(
               IF r.retval = -1
               THEN Monitored(s, "als_enable_req_dbus_cb", sender, r)
               ELSE IF r.retval = 1
               THEN adjust_als_thresholds(
                        [Monitored(s, "als_enable_req_dbus_cb", sender, r)
                           EXCEPT !.als_external_refcount = r.retval], 0, 0)
               ELSE [Monitored(s, "als_enable_req_dbus_cb", sender, r)
                       EXCEPT !.als_external_refcount = r.retval],
               no_reply) :
           r \in {mce_dbus_owner_monitor_add(sender, s.als_owner_monitor_list,
                                             ALS_MAX_MONITORED)} })

\* the release shared by the disable request and the owner-gone signal:
\* the count follows the monitor; at 0 the band is restored
Released(s, op, sender, r) ==
    IF r.retval = -1 THEN Monitored(s, op, sender, r)
    ELSE IF r.retval = 0
    THEN adjust_als_thresholds(
             [Monitored(s, op, sender, r)
                EXCEPT !.als_external_refcount = r.retval], -1, -1)
    ELSE [Monitored(s, op, sender, r)
            EXCEPT !.als_external_refcount = r.retval]

\* as als_disable_req_dbus_cb(), but the last release forces (0,0) instead
\* of asking for the cached band
als_disable_req_dbus_cb_force(s, sender, no_reply) ==
    IF sender = 0
    THEN [Begin(s, "als_disable_req_dbus_cb") EXCEPT !.ev.sender = sender]
    ELSE
    Only({ SendReply(
               IF r.retval = -1
               THEN Monitored(s, "als_disable_req_dbus_cb", sender, r)
               ELSE IF r.retval = 0
               THEN adjust_als_thresholds(
                        [Monitored(s, "als_disable_req_dbus_cb", sender, r)
                           EXCEPT !.als_external_refcount = r.retval], 0, 0)
               ELSE [Monitored(s, "als_disable_req_dbus_cb", sender, r)
                       EXCEPT !.als_external_refcount = r.retval],
               no_reply) :
           r \in {mce_dbus_owner_monitor_remove(sender,
                                                s.als_owner_monitor_list)} })

als_disable_req_dbus_cb(s, sender, no_reply) ==
    IF sender = 0
    THEN [Begin(s, "als_disable_req_dbus_cb") EXCEPT !.ev.sender = sender]
    ELSE
    Only({ SendReply(Released(s, "als_disable_req_dbus_cb", sender, r),
                     no_reply) :
           r \in {mce_dbus_owner_monitor_remove(sender,
                                                s.als_owner_monitor_list)} })

\* as als_owner_monitor_dbus_cb(), but the count is left as it was
als_owner_monitor_dbus_cb_keep(s, args_ok, old_name) ==
    IF ~args_ok
    THEN [Begin(s, "als_owner_monitor_dbus_cb") EXCEPT !.ev.sender = old_name]
    ELSE
    Only({ [(IF r.retval = 0
             THEN adjust_als_thresholds(
                      Monitored(s, "als_owner_monitor_dbus_cb", old_name, r),
                      -1, -1)
             ELSE Monitored(s, "als_owner_monitor_dbus_cb", old_name, r))
              EXCEPT !.ev.status = TRUE] :
           r \in {mce_dbus_owner_monitor_remove(old_name,
                                                s.als_owner_monitor_list)} })

\* NameOwnerChanged for old_name; args_ok: the signal's arguments parse
als_owner_monitor_dbus_cb(s, args_ok, old_name) ==
    IF ~args_ok
    THEN [Begin(s, "als_owner_monitor_dbus_cb") EXCEPT !.ev.sender = old_name]
    ELSE
    Only({ [Released(s, "als_owner_monitor_dbus_cb", old_name, r)
              EXCEPT !.ev.status = TRUE] :
           r \in {mce_dbus_owner_monitor_remove(old_name,
                                                s.als_owner_monitor_list)} })


(***************************************************************************)
(* g_module_check_init(): the state after construction.  type and thresh   *)
(* are what get_als_type() found, gconf the stored ALS-enabled setting,    *)
(* rd the initial read and policy the configured step-down policy.         *)
(***************************************************************************)
Statics ==
    [als_type |-> "UNSET", als_threshold_range_path |-> FALSE,
     als_available |-> TRUE, als_enabled |-> TRUE,
     als_lux |-> -1, delayed_lux |-> -1,
     display_state |-> "UNDEF", old_display_state |-> "UNDEF",
     als_poll_interval |-> ALS_DISPLAY_ON_POLL_FREQ,
     als_poll_timer_cb_id |-> 0, als_iomon_id |-> 0,
     brightness_delay_timer_cb_id |-> 0,
     als_level |-> [c \in Consumers |-> -1],
     brightness_lower |-> [c \in Consumers |-> -1],
     brightness_upper |-> [c \in Consumers |-> -1],
     cached_lower |-> -1, cached_upper |-> -1,
     als_external_refcount |-> 0, als_owner_monitor_list |-> {},
     proximity_sensor_state |-> "COVER_OPEN",
     brightness_step_down_policy |-> "direct",
     pipe_input |-> [c \in Consumers |-> IF c = "display" THEN 3 ELSE 100],
     pipe_output |-> [c \in Consumers |-> -1],
     threshold_file |-> << >>,
     delay_sources |-> 0, poll_sources |-> 0, iomon_registered |-> 0,
     als_paths |-> NoPaths,
     sysfs |-> [readable |-> {}, writable |-> FALSE,
                calib0 |-> << >>, calib1 |-> << >>, probes |-> 0],
     camera_active_state_iomon_id |-> 0,
     camera_popout_state_iomon_id |-> 0,
     ev |-> NoEv("g_module_check_init")]

\* readable: the device nodes that exist; writable: the threshold channel
\* can be written; sysinfo: what the calibration store returns
g_module_check_init(readable, writable, sysinfo, gconf, rd, filtered, policy) ==
    Only({ Only({ [(IF s1.als_lux # -1 THEN RefilterBrightness(s1) ELSE s1)
                     EXCEPT !.brightness_step_down_policy = policy] :
                  s1 \in {LET first == IF s0.als_type # "NONE"
                                       THEN als_read_value_filtered(s0, rd,
                                                                    filtered)
                                       ELSE -1
                              sa == [s0 EXCEPT !.ev.args =
                                        [sysinfo |-> sysinfo,
                                         first |-> first]]
                          IN  IF first >= 0
                              THEN setup_als_poll_timer(
                                       [sa EXCEPT !.als_lux = first,
                                                  !.als_poll_interval =
                                                      ALS_DISPLAY_ON_POLL_FREQ])
                              ELSE [sa EXCEPT !.als_lux = -1,
                                              !.als_available = FALSE,
                                              !.als_enabled = FALSE]} }) :
           s0 \in {IF t.als_type # "NONE" THEN calibrate_als(t, sysinfo)
                   ELSE t :
                   t \in {get_als_type(
                            [Statics EXCEPT !.sysfs.readable = readable,
                                            !.sysfs.writable = writable,
                                            !.als_enabled = gconf])} } })

\* the readings a read of the sensor can give: -1 is a failed read
Reads(type) ==
    {-1} \cup Lux \cup (IF type = "AVAGO" THEN {G_MAXINT} ELSE {})

\* the results the median filter can give for a sample
MedianOut(type, value) ==
    IF type \in {"TSL2562", "TSL2563"} /\ value # -1 THEN Lux ELSE {value}

Start(t) ==
    \E r \in {t} :
      /\ als_type = r.als_type
      /\ als_threshold_range_path = r.als_threshold_range_path
      /\ als_available = r.als_available
      /\ als_enabled = r.als_enabled
      /\ als_lux = r.als_lux
      /\ delayed_lux = r.delayed_lux
      /\ display_state = r.display_state
      /\ old_display_state = r.old_display_state
      /\ als_poll_interval = r.als_poll_interval
      /\ als_poll_timer_cb_id = r.als_poll_timer_cb_id
      /\ als_iomon_id = r.als_iomon_id
      /\ brightness_delay_timer_cb_id = r.brightness_delay_timer_cb_id
      /\ als_level = r.als_level
      /\ brightness_lower = r.brightness_lower
      /\ brightness_upper = r.brightness_upper
      /\ cached_lower = r.cached_lower
      /\ cached_upper = r.cached_upper
      /\ als_external_refcount = r.als_external_refcount
      /\ als_owner_monitor_list = r.als_owner_monitor_list
      /\ proximity_sensor_state = r.proximity_sensor_state
      /\ brightness_step_down_policy = r.brightness_step_down_policy
      /\ pipe_input = r.pipe_input
      /\ pipe_output = r.pipe_output
      /\ threshold_file = r.threshold_file
      /\ delay_sources = r.delay_sources
      /\ poll_sources = r.poll_sources
      /\ iomon_registered = r.iomon_registered
      /\ als_paths = r.als_paths
      /\ sysfs = r.sysfs
      /\ camera_active_state_iomon_id = r.camera_active_state_iomon_id
      /\ camera_popout_state_iomon_id = r.camera_popout_state_iomon_id
      /\ ev = r.ev

\* the device nodes of a machine that carries the sensor of the given type
NodesOf(type) == IF type = "NONE" THEN {} ELSE {type}

\* the calibration store holds no calibration data
NoSysinfo == [ok |-> FALSE, len |-> 0, words |-> << >>]

\* the states after construction for the given hardware and settings
InitOf(types, threshs, gconfs, policies) ==
    \E type \in types, thresh \in threshs, gconf \in gconfs,
       policy \in policies :
      \E rd \in Reads(type) : \E filtered \in MedianOut(type, rd) :
        Start(g_module_check_init(NodesOf(type), thresh, NoSysinfo, gconf,
                                  rd, filtered, policy))

Init == InitOf(AlsTypes, BOOLEAN, BOOLEAN, {"direct", "unblank"})

(***************************************************************************)
(* Actions: one per callback the main loop can dispatch                    *)
(***************************************************************************)
AlsDiproIomonCb ==
    /\ als_type = "DIPRO" /\ iomon_registered > 0
    /\ \E bytes_ok \in BOOLEAN, lux \in Lux :
         Set(als_dipro_iomon_cb(St, bytes_ok, lux, lux))

AlsAvagoIomonCb ==
    /\ als_type = "AVAGO" /\ iomon_registered > 0
    /\ \E bytes_ok \in BOOLEAN, updated \in BOOLEAN, saturated \in BOOLEAN,
          lux \in Lux :
         Set(als_avago_iomon_cb(St, bytes_ok, updated, saturated, lux, lux))

AlsPollTimerCb ==
    /\ poll_sources > 0
    /\ \E rd \in Reads(als_type) : \E filtered \in MedianOut(als_type, rd) :
         Set(als_poll_timer_cb(St, rd, filtered))

BrightnessDelayTimerCb ==
    /\ delay_sources > 0
    /\ Set(brightness_delay_timer_cb(St, delayed_lux))

DisplayStateTrigger ==
    \E data \in DisplayStates :
      \E rd \in Reads(als_type) : \E filtered \in MedianOut(als_type, rd) :
        Set(display_state_trigger(St, data, rd, filtered))

AlsGconfCb ==
    \E unset \in BOOLEAN, value \in BOOLEAN :
      Set(als_gconf_cb(St, unset, value))

\* the proximity sensor module publishes a new cover state
ProximityChange ==
    \E c \in CoverStates \ {proximity_sensor_state} :
      Set([Begin(St, "proximity") EXCEPT !.proximity_sensor_state = c])

\* another module executes one of the brightness pipes
BrightnessPipe ==
    \E c \in Consumers :
      Set(execute_datapipe(Begin(St, "execute_datapipe"), c))

AlsEnableReq ==
    \E sender \in Requesters \cup {0}, no_reply \in BOOLEAN :
      Set(als_enable_req_dbus_cb(St, sender, no_reply))

AlsDisableReq ==
    \E sender \in Requesters \cup {0}, no_reply \in BOOLEAN :
      Set(als_disable_req_dbus_cb(St, sender, no_reply))

AlsOwnerGone ==
    \E old_name \in Requesters, args_ok \in BOOLEAN :
      Set(als_owner_monitor_dbus_cb(St, args_ok, old_name))

Next ==
    \/ AlsDiproIomonCb
    \/ AlsAvagoIomonCb
    \/ AlsPollTimerCb
    \/ BrightnessDelayTimerCb
    \/ DisplayStateTrigger
    \/ AlsGconfCb
    \/ ProximityChange
    \/ BrightnessPipe
    \/ AlsEnableReq
    \/ AlsDisableReq
    \/ AlsOwnerGone

Spec == Init /\ [][Next]_vars

(***************************************************************************)
(* Sub-systems: the same callbacks under a narrower environment.           *)
(***************************************************************************)
\* lux updates, the step-down timer, display state and proximity
InitLux == InitOf(AlsTypes, {TRUE}, {TRUE}, {"direct"})

NextLux ==
    \/ AlsDiproIomonCb
    \/ AlsAvagoIomonCb
    \/ AlsPollTimerCb
    \/ BrightnessDelayTimerCb
    \/ DisplayStateTrigger
    \/ ProximityChange

SpecLux == InitLux /\ [][NextLux]_vars

(***************************************************************************)
(* The probe of the hardware and the calibration at module load: any set   *)
(* of device nodes, any calibration blob; afterwards the device nodes come *)
(* and go while the callbacks ask for the sensor type again.               *)
(***************************************************************************)
CalibBases == {10, 20}

\* the blobs the calibration store can return: word i holds base + i
Blobs ==
    {NoSysinfo} \cup
    { [ok |-> TRUE, len |-> l,
       words |-> [i \in 1..(l \div 4) |-> b + i]] :
      l \in 0..(4 * MaxBlobWords), b \in CalibBases }

ProbeReads == {-1, MaxLux}

InitProbe ==
    \E readable \in SUBSET AlsNodes, writable \in BOOLEAN,
       sysinfo \in Blobs, rd \in ProbeReads :
      Start(g_module_check_init(readable, writable, sysinfo, TRUE, rd, rd,
                                "direct"))

\* a device node appears or disappears, the threshold channel changes mode
SysfsChange ==
    \E readable \in SUBSET AlsNodes, writable \in BOOLEAN :
      /\ <<readable, writable>> # <<sysfs.readable, sysfs.writable>>
      /\ Set([Begin(St, "sysfs_change")
                EXCEPT !.sysfs.readable = readable,
                       !.sysfs.writable = writable])

\* a later call of get_als_type(), as the read of the sensor and the setup
\* of the poll timer make
GetAlsType ==
    Set(Only({ [t EXCEPT !.ev.args = <<t.als_type>>] :
               t \in {get_als_type(Begin(St, "get_als_type"))} }))

NextProbe == SysfsChange \/ GetAlsType

SpecProbe == InitProbe /\ [][NextProbe]_vars

(***************************************************************************)
(* The two cancel functions on their own: called at any moment of the lux  *)
(* updates, with a source pending or none, once or several times in a row. *)
(***************************************************************************)
CancelAlsPollTimer ==
    Set(cancel_als_poll_timer(Begin(St, "cancel_als_poll_timer")))

CancelBrightnessDelayTimer ==
    Set(cancel_brightness_delay_timer(
            Begin(St, "cancel_brightness_delay_timer")))

InitCancel == InitOf(AlsTypes, {TRUE}, {TRUE}, {"direct"})

NextCancel ==
    \/ NextLux
    \/ CancelAlsPollTimer
    \/ CancelBrightnessDelayTimer

SpecCancel == InitCancel /\ [][NextCancel]_vars

\* the same under either configured step-down policy
InitPolicy == InitOf(AlsTypes, {TRUE}, {TRUE}, {"direct", "unblank"})

SpecPolicy == InitPolicy /\ [][NextLux]_vars

\* external ownership against lux updates and display state
InitOwn == InitOf({"DIPRO"}, BOOLEAN, {TRUE}, {"direct"})

NextOwn ==
    \/ AlsDiproIomonCb
    \/ BrightnessDelayTimerCb
    \/ DisplayStateTrigger
    \/ AlsEnableReq
    \/ AlsDisableReq
    \/ AlsOwnerGone

SpecOwn == InitOwn /\ [][NextOwn]_vars

\* external ownership next to the lux updates of a sensor that has the
\* threshold channel, with a display that blanks and unblanks: the two
\* transitions on which display_state_trigger() calls
\* adjust_als_thresholds()
DisplayBlankUnblank ==
    \E data \in {"OFF", "ON"} :
      \E rd \in Reads(als_type) : \E filtered \in MedianOut(als_type, rd) :
        Set(display_state_trigger(St, data, rd, filtered))

InitHeld == InitOf({"DIPRO"}, {TRUE}, {TRUE}, {"direct"})

NextHeld ==
    \/ AlsDiproIomonCb
    \/ BrightnessDelayTimerCb
    \/ DisplayBlankUnblank
    \/ AlsEnableReq
    \/ AlsDisableReq
    \/ AlsOwnerGone

SpecHeld == InitHeld /\ [][NextHeld]_vars

\* the ownership monitor up to its capacity.  The handlers compare senders
\* only for equality, so every set of k tracked senders behaves like 1..k:
\* it is enough that the next unused sender or the last tracked one calls.
CapSenders ==
    {Cardinality(als_owner_monitor_list),
     Cardinality(als_owner_monitor_list) + 1} \ {0}

AlsEnableReqCap ==
    \E sender \in CapSenders \cup {0}, no_reply \in BOOLEAN :
      Set(als_enable_req_dbus_cb(St, sender, no_reply))

AlsDisableReqCap ==
    \E sender \in CapSenders \cup {0}, no_reply \in BOOLEAN :
      Set(als_disable_req_dbus_cb(St, sender, no_reply))

AlsOwnerGoneCap ==
    \E old_name \in CapSenders, args_ok \in BOOLEAN :
      Set(als_owner_monitor_dbus_cb(St, args_ok, old_name))

InitCap == InitOf({"DIPRO"}, BOOLEAN, {TRUE}, {"direct"})

NextCap ==
    \/ AlsDiproIomonCb
    \/ BrightnessDelayTimerCb
    \/ AlsEnableReqCap
    \/ AlsDisableReqCap
    \/ AlsOwnerGoneCap

SpecCap == InitCap /\ [][NextCap]_vars

(***************************************************************************)
(* adjust_als_thresholds() on its own: the function called with every      *)
(* request its callers can make (a band of boundaries, (0,65535) or        *)
(* (-1,-1)), in every order, so that its two statics take every value.     *)
(***************************************************************************)
ThresholdRequests ==
    ((Lux \cup {65535}) \X (Lux \cup {65535})) \cup {<<-1, -1>>}

AdjustAlsThresholds ==
    \E b \in ThresholdRequests :
      Set(adjust_als_thresholds(
              [Begin(St, "adjust_als_thresholds") EXCEPT !.ev.args = b],
              b[1], b[2]))

InitThresh == InitOf({"DIPRO", "TSL2563"}, BOOLEAN, {TRUE}, {"direct"})

NextThresh == AdjustAlsThresholds

SpecThresh == InitThresh /\ [][NextThresh]_vars

(***************************************************************************)
(* The module from every outcome of g_module_check_init() (each sensor     *)
(* type or none, the initial read good or failed, the setting on or off)   *)
(* under the events that reach it whether or not a sensor works: the       *)
(* setting's notification, display-state changes and runs of the           *)
(* brightness pipes.                                                       *)
(***************************************************************************)
InitAvail == InitOf(AlsTypes, {TRUE}, BOOLEAN, {"direct"})

NextAvail ==
    \/ AlsGconfCb
    \/ DisplayStateTrigger
    \/ BrightnessPipe

SpecAvail == InitAvail /\ [][NextAvail]_vars

(***************************************************************************)
(* The camera module: two I/O monitors, registered when the module is      *)
(* loaded, and the callbacks the I/O module calls when a monitor is        *)
(* deleted.  The callbacks are called with every handle, cached or not:    *)
(* that of a monitor deleted earlier, that of the other monitor, NULL.     *)
(***************************************************************************)
Handles == 1..MaxHandle

\* as camera_popout_state_iomon_delete_cb(), without the comparison
camera_popout_state_iomon_delete_cb_any(s, iomon) ==
    [s EXCEPT !.camera_popout_state_iomon_id = 0]

camera_popout_state_iomon_delete_cb(s, iomon) ==
    IF iomon = s.camera_popout_state_iomon_id
    THEN [s EXCEPT !.camera_popout_state_iomon_id = 0]
    ELSE s

camera_active_state_iomon_delete_cb(s, iomon) ==
    IF iomon = s.camera_active_state_iomon_id
    THEN [s EXCEPT !.camera_active_state_iomon_id = 0]
    ELSE s

\* g_module_check_init() of the camera module: active and popout are what
\* the two registrations return
camera_module_check_init(s, active, popout) ==
    [s EXCEPT !.camera_active_state_iomon_id = active,
              !.camera_popout_state_iomon_id = popout]

\* g_module_unload() of the camera module: mce_unregister_io_monitor() on
\* the pop-out monitor, then on the active monitor; the I/O module calls the
\* monitor's deletion callback with the handle before it releases it, and
\* does nothing for NULL
camera_module_unload(s) ==
    Only({ IF s1.camera_active_state_iomon_id # 0
           THEN camera_active_state_iomon_delete_cb(
                    s1, s1.camera_active_state_iomon_id)
           ELSE s1 :
           s1 \in {IF s.camera_popout_state_iomon_id # 0
                   THEN camera_popout_state_iomon_delete_cb(
                            s, s.camera_popout_state_iomon_id)
                   ELSE s} })

\* what two registrations can return: NULL, or a handle no other monitor has
Registrations ==
    { r \in (Handles \cup {0}) \X (Handles \cup {0}) :
        (r[1] = r[2]) => (r[1] = 0) }

InitCamera ==
    \E r \in Registrations :
      Start(camera_module_check_init(
                [Statics EXCEPT !.ev = NoEv("camera_module_check_init")],
                r[1], r[2]))

CameraPopoutStateIomonDeleteCb ==
    \E iomon \in Handles \cup {0} :
      Set(camera_popout_state_iomon_delete_cb(
              [Begin(St, "camera_popout_state_iomon_delete_cb")
                 EXCEPT !.ev.args = <<iomon>>], iomon))

CameraActiveStateIomonDeleteCb ==
    \E iomon \in Handles \cup {0} :
      Set(camera_active_state_iomon_delete_cb(
              [Begin(St, "camera_active_state_iomon_delete_cb")
                 EXCEPT !.ev.args = <<iomon>>], iomon))

\* the module is loaded again: both monitors are registered anew
CameraModuleCheckInit ==
    \E r \in Registrations :
      Set(camera_module_check_init(Begin(St, "camera_module_check_init"),
                                   r[1], r[2]))

CameraModuleUnload ==
    Set(camera_module_unload(Begin(St, "camera_module_unload")))

NextCamera ==
    \/ CameraPopoutStateIomonDeleteCb
    \/ CameraActiveStateIomonDeleteCb
    \/ CameraModuleCheckInit
    \/ CameraModuleUnload

SpecCamera == InitCamera /\ [][NextCamera]_vars

(***************************************************************************)
(* The three brightness filters on their own, called with any input the    *)
(* pipes can carry, while the setting's notification turns ALS off and on  *)
(* and the display changes state.                                          *)
(***************************************************************************)
\* the inputs of the filters: the settings 1..5 and one value on each side
PipeData == (ALS_PROFILE_MINIMUM)..(ALS_PROFILE_MAXIMUM + 2)

BrightnessFilter ==
    \E c \in Consumers, data \in PipeData :
      Set(Only({ [f.s EXCEPT !.ev.args = <<c, data>>, !.ev.retval = f.out] :
                 f \in {CASE c = "display" ->
                               display_brightness_filter(
                                   Begin(St, "brightness_filter"), data)
                          [] c = "led" ->
                               led_brightness_filter(
                                   Begin(St, "brightness_filter"), data)
                          [] c = "kbd" ->
                               key_backlight_filter(
                                   Begin(St, "brightness_filter"), data)} }))

InitPass == InitOf(AlsTypes, {TRUE}, {TRUE}, {"direct"})

NextPass ==
    \/ BrightnessFilter
    \/ AlsGconfCb
    \/ DisplayStateTrigger

SpecPass == InitPass /\ [][NextPass]_vars

(***************************************************************************)
(* filter_data() on its own, as the display filter calls it: one profile   *)
(* table, drawn at the start, and the level and band statics the calls     *)
(* read and write.  The tables are those of up to ALS_RANGES rows whose    *)
(* boundaries ascend through the table (a table of ALS_RANGES rows has no  *)
(* room for the closing row), every table of up to two rows, ascending or  *)
(* not, and the table of the specification's scenario.                     *)
(***************************************************************************)
Boundaries == 0..(MaxLux + 1)

RECURSIVE AscendingRows(_, _)
AscendingRows(k, from) ==
    IF k = 0 THEN {<< >>}
    ELSE UNION { UNION { { << <<lo, hi>> >> \o t :
                           t \in AscendingRows(k - 1, hi) } :
                         hi \in lo..(MaxLux + 1) } :
                 lo \in from..(MaxLux + 1) }

Ramp == [l \in 1..(ALS_RANGES + 1) |-> 20 * l]

ScenarioProfile ==
    Table(<< <<0, 100>>, <<100, 300>>, <<300, -1>>, <<-1, -1>> >>,
          <<20, 50, 90>>)
ScenarioLux == {50, 400}

FilterTables ==
    { Table(rows, Ramp) :
        rows \in UNION { AscendingRows(k, 0) : k \in 0..ALS_RANGES } \cup
                 UNION { [1..k -> Boundaries \X Boundaries] : k \in 0..2 } }
    \cup {ScenarioProfile}
FilterLux == Lux \cup ScenarioLux
StartLevels == -1..(ALS_RANGES + 1)

InitFilter ==
    \E p \in FilterTables, level \in StartLevels :
      Start([Statics EXCEPT
               !.als_level["display"] = level,
               !.ev = [NoEv("init") EXCEPT
                         !.args = [profile |-> p, lux |-> -1,
                                   level |-> level, value |-> -1]]])

\* one call from display_brightness_filter(): the level and the band go to
\* the display's statics, the value is returned
FilterData ==
    \E lux \in FilterLux :
      Set(Only({ Filtered([Begin(St, "filter_data") EXCEPT
                             !.ev.args = [profile |-> ev.args.profile,
                                          lux |-> lux,
                                          level |-> als_level["display"],
                                          value |-> r.value]],
                          "display", r) :
                 r \in {filter_data([k \in {ALS_PROFILE_NORMAL} |->
                                        ev.args.profile],
                                    ALS_PROFILE_NORMAL, lux,
                                    als_level["display"])} }))

NextFilter == FilterData

SpecFilter == InitFilter /\ [][NextFilter]_vars


(***************************************************************************)
(* Properties                                                              *)
(***************************************************************************)
IomonOps == {"als_dipro_iomon_cb", "als_avago_iomon_cb"}
LuxOps == IomonOps \cup {"als_poll_timer_cb", "brightness_delay_timer_cb"}
ReleaseOps == {"als_disable_req_dbus_cb", "als_owner_monitor_dbus_cb"}

\* a step-down timer is recorded and pending in the main loop
TimerPending == (brightness_delay_timer_cb_id # 0) /\ (delay_sources > 0)

\* the module's own state: everything but the record of the last callback
ModuleState ==
    <<als_type, als_threshold_range_path, als_available, als_enabled,
      als_lux, delayed_lux, display_state, old_display_state,
      als_poll_interval, als_poll_timer_cb_id, als_iomon_id,
      brightness_delay_timer_cb_id, als_level, brightness_lower,
      brightness_upper, cached_lower, cached_upper, als_external_refcount,
      als_owner_monitor_list, proximity_sensor_state,
      brightness_step_down_policy, pipe_input, pipe_output, threshold_file,
      delay_sources, poll_sources, iomon_registered>>

\* C1: while the external ownership count is non-zero, neither a lux update
\* (I/O monitor, poll timer, step-down timer) nor a display-state transition
\* writes the threshold-control channel.
C1_NoWriteWhileOwned ==
    ((als_external_refcount # 0) /\
     (ev.op \in LuxOps \cup {"display_state_trigger"}))
        => (ev.writes = << >>)

\* C2: a reading greater than or equal to the cached lux that arrives while
\* a step-down timer is pending cancels the timer, so that the pending
\* lower value is never applied.
C2_StepUpCancels ==
    [][(TimerPending /\ (ev'.op \in IomonOps) /\ (ev'.lux # -1) /\
        (ev'.lux >= als_lux))
          => ((brightness_delay_timer_cb_id' = 0) /\ (delay_sources' = 0))]_vars

\* C3 as stated: a second step-down reading L2 < L1 that arrives while the
\* timer armed by L1 is pending arms no second timer, does not restart the
\* first and becomes the pending value; the timer's re-evaluation uses the
\* pending value with the delay suppressed.
C3_Coalescing_AsStated ==
    [][/\ (TimerPending /\ (ev'.op \in IomonOps) /\ (ev'.lux # -1) /\
           (ev'.lux < als_lux) /\ (ev'.lux < delayed_lux))
             => /\ delayed_lux' = ev'.lux
                /\ ev'.armed = 0 /\ ev'.removed = 0
                /\ delay_sources' = delay_sources
                /\ brightness_delay_timer_cb_id' = brightness_delay_timer_cb_id
       /\ (ev'.op = "brightness_delay_timer_cb")
             => ((ev'.lux = delayed_lux) /\ ev'.no_delay)]_vars

\* C3 amended: the same, for readings that arrive while the proximity
\* sensor does not report covered.
C3_Coalescing ==
    [][/\ (TimerPending /\ (ev'.op \in IomonOps) /\ (ev'.lux # -1) /\
           (ev'.lux < als_lux) /\ (ev'.lux < delayed_lux) /\
           (proximity_sensor_state # "COVER_CLOSED"))
             => /\ delayed_lux' = ev'.lux
                /\ ev'.armed = 0 /\ ev'.removed = 0
                /\ delay_sources' = delay_sources
                /\ brightness_delay_timer_cb_id' = brightness_delay_timer_cb_id
       /\ (ev'.op = "brightness_delay_timer_cb")
             => ((ev'.lux = delayed_lux) /\ ev'.no_delay)]_vars

\* a second, lower step-down reading was taken while the timer was pending
C3_Witness ==
    /\ ev.op \in IomonOps /\ ev.lux # -1 /\ ev.lux < als_lux
    /\ ev.armed = 0 /\ delayed_lux = ev.lux /\ delay_sources = 1
    /\ proximity_sensor_state # "COVER_CLOSED"

\* what a lux update can change of the brightness decision and the band
Decision ==
    <<als_lux, als_level, brightness_lower, brightness_upper, pipe_output,
      threshold_file, cached_lower, cached_upper>>

\* C4 as stated: a reading lower than the cached lux is not applied in the
\* callback that delivers it, be it the I/O monitor's or the poll timer's.
C4_StepDownDelayed_AsStated ==
    [][((ev'.op \in IomonOps \cup {"als_poll_timer_cb"}) /\ (ev'.lux # -1) /\
        (ev'.lux < als_lux))
          => ((Decision' = Decision) /\ (ev'.writes = << >>) /\ ~ev'.pipes)]_vars

\* C4 amended: a lower reading delivered by the I/O monitor is not applied in
\* that callback; the cached lux is lowered only by the step-down timer or,
\* at once, by the poll timer, which has no step-down delay.
C4_StepDownDelayed ==
    [][/\ ((ev'.op \in IomonOps) /\ (ev'.lux # -1) /\ (ev'.lux < als_lux))
             => ((Decision' = Decision) /\ (ev'.writes = << >>) /\ ~ev'.pipes)
       /\ (als_lux' < als_lux)
             => (ev'.op \in {"brightness_delay_timer_cb", "als_poll_timer_cb"})
       /\ ((ev'.op = "als_poll_timer_cb") /\ (ev'.lux # -1) /\
           (ev'.lux < als_lux))
             => (als_lux' = ev'.lux)]_vars

\* a lower reading came through the I/O monitor and was held back
C4_Witness ==
    /\ ev.op \in IomonOps /\ ev.lux # -1 /\ ev.lux < als_lux
    /\ ev.armed = 1 /\ TimerPending /\ delayed_lux = ev.lux

\* C5: a display transition from on/dim to off/low-power while a step-down
\* timer is pending cancels the timer and forces the band (0,65535), which
\* no evaluation of the pending value overwrites.
C5_DisplayOffCancels ==
    [][/\ ((ev'.op = "display_state_trigger") /\ TimerPending /\
           (old_display_state \in DisplayOnStates) /\
           (display_state' \in DisplayOffStates))
             => /\ brightness_delay_timer_cb_id' = 0
                /\ delay_sources' = 0
                /\ threshold_file' = <<0, 65535>>
       /\ ((ev'.op = "brightness_delay_timer_cb") /\
           (display_state \in DisplayOffStates))
             => (ev'.writes = << >>)]_vars

C7_ReleaseRestores ==
    [][(ev'.op \in ReleaseOps)
          => /\ ((als_external_refcount >= 1) /\ (als_external_refcount' = 0))
                   => /\ ev'.writes =
                           IF ~als_threshold_range_path THEN << >>
                           ELSE IF cached_lower = -1 THEN << <<0, 0>> >>
                           ELSE << <<cached_lower, cached_upper>> >>
                      /\ cached_lower' = cached_lower
                      /\ cached_upper' = cached_upper
             /\ (als_external_refcount' > 0) => (ev'.writes = << >>)]_vars

\* the last release restored a band cached before the acquire
C7_Witness ==
    /\ ev.op \in ReleaseOps /\ als_external_refcount = 0
    /\ cached_lower # -1
    /\ ev.writes = << <<cached_lower, cached_upper>> >>

\* C8: the external ownership count is the number of tracked requesters
\* (those that enabled and neither disabled nor disappeared) and never
\* exceeds the capacity.
C8_CountIsSetSize ==
    /\ als_external_refcount = Cardinality(als_owner_monitor_list)
    /\ als_external_refcount <= ALS_MAX_MONITORED

\* the capacity is reached and one more requester was turned away
C8_Witness ==
    /\ als_external_refcount = ALS_MAX_MONITORED
    /\ ev.op = "als_enable_req_dbus_cb" /\ ev.retval = -1

\* C9: an enable request beyond the capacity, or a disable request or
\* owner-gone notification for a requester that is not tracked, changes no
\* state of the module and writes no threshold.
C9_FailedRequestNoChange ==
    [][(\/ /\ ev'.op = "als_enable_req_dbus_cb"
           /\ ev'.sender \notin als_owner_monitor_list
           /\ Cardinality(als_owner_monitor_list) >= ALS_MAX_MONITORED
        \/ /\ ev'.op \in ReleaseOps
           /\ ev'.sender \notin als_owner_monitor_list)
          => ((ModuleState' = ModuleState) /\ (ev'.writes = << >>))]_vars

\* a requester beyond the capacity was refused while a band is cached
C9_Witness ==
    /\ ev.op = "als_enable_req_dbus_cb" /\ ev.retval = -1 /\ ev.sender # 0
    /\ Cardinality(als_owner_monitor_list) = ALS_MAX_MONITORED
    /\ cached_lower # -1

\* C10: a failed enable or disable request (over capacity, unknown
\* requester) is answered with a failure indication, not with the reply of
\* a request that succeeded.
C10_FailureReported ==
    ((ev.op \in {"als_enable_req_dbus_cb", "als_disable_req_dbus_cb"}) /\
     (ev.sender # 0) /\ (ev.retval = -1))
        => ((ev.reply # "method_return") /\ ~ev.status)

\* C11: enable and disable are idempotent per requester: an enable that
\* directly follows a successful enable of the same requester leaves the
\* ownership count, the monitored requesters and the band on the threshold
\* channel as that first enable left them, and a disable from a requester
\* that is not (or no longer) monitored leaves them unchanged.
C11_Idempotent ==
    [][/\ ((ev'.op = "als_enable_req_dbus_cb") /\ (ev'.sender # 0) /\
           (ev.op = "als_enable_req_dbus_cb") /\ (ev.sender = ev'.sender) /\
           (ev.retval # -1))
             => /\ als_external_refcount' = als_external_refcount
                /\ als_owner_monitor_list' = als_owner_monitor_list
                /\ threshold_file' = threshold_file
       /\ ((ev'.op = "als_disable_req_dbus_cb") /\ (ev'.sender # 0) /\
           (ev'.sender \notin als_owner_monitor_list))
             => /\ als_external_refcount' = als_external_refcount
                /\ als_owner_monitor_list' = als_owner_monitor_list
                /\ threshold_file' = threshold_file]_vars

\* the only holder asked again: (0,0) was written a second time
C11_Witness ==
    /\ ev.op = "als_enable_req_dbus_cb" /\ ev.held /\ ev.retval = 1
    /\ als_external_refcount = 1 /\ ev.writes = << <<0, 0>> >>
    /\ threshold_file = <<0, 0>>

\* C12: the cache of adjust_als_thresholds() never holds (0,0) or (0,65535).
\* Where the threshold channel exists, a request of (0,0) or of an inverted
\* band writes (0,0), a request of (0,65535) writes it, a request of (-1,-1)
\* writes the cached band or (0,0) if none is cached, and none of them
\* changes the cache; every other request is cached and written as given.
C12_CacheRule ==
    [][/\ <<cached_lower', cached_upper'>> \notin {<<0, 0>>, <<0, 65535>>}
       /\ ((ev'.op = "adjust_als_thresholds") /\ als_threshold_range_path)
             => \E lower \in {ev'.args[1]}, upper \in {ev'.args[2]} :
                  IF (lower > upper) \/ (<<lower, upper>> = <<0, 0>>)
                  THEN /\ ev'.writes = << <<0, 0>> >>
                       /\ <<cached_lower', cached_upper'>> =
                            <<cached_lower, cached_upper>>
                  ELSE IF <<lower, upper>> = <<-1, -1>>
                  THEN /\ ev'.writes =
                            IF cached_lower = -1 THEN << <<0, 0>> >>
                            ELSE << <<cached_lower, cached_upper>> >>
                       /\ <<cached_lower', cached_upper'>> =
                            <<cached_lower, cached_upper>>
                  ELSE IF <<lower, upper>> = <<0, 65535>>
                  THEN /\ ev'.writes = << <<0, 65535>> >>
                       /\ <<cached_lower', cached_upper'>> =
                            <<cached_lower, cached_upper>>
                  ELSE /\ ev'.writes = << <<lower, upper>> >>
                       /\ <<cached_lower', cached_upper'>> = <<lower, upper>>
      ]_vars

\* a (-1,-1) request wrote the band that an earlier request had cached
C12_Witness ==
    /\ ev.op = "adjust_als_thresholds" /\ ev.args = <<-1, -1>>
    /\ cached_lower # -1
    /\ ev.writes = << <<cached_lower, cached_upper>> >>
    /\ threshold_file = <<cached_lower, cached_upper>>

\* the consumers that have a profile table for the detected sensor
ActiveConsumers == {c \in Consumers : HasProfile(als_type, c)}
SetMax(S) == CHOOSE x \in S : \A y \in S : y <= x
SetMin(S) == CHOOSE x \in S : \A y \in S : x <= y

\* C13: the band a lux update hands to the threshold channel is (maximum of
\* the lower bounds, minimum of the upper bounds) of the consumers that have
\* a profile table, whatever the order they are taken in (an inverted
\* result, or (0,0), reaches the channel as (0,0)); a consumer without a
\* table does not enter it.
C13_MergedBand ==
    [][((ev'.op \in LuxOps) /\ (ev'.writes # << >>))
          => \E lower \in {SetMax({brightness_lower'[c] : c \in ActiveConsumers})},
                upper \in {SetMin({brightness_upper'[c] : c \in ActiveConsumers})} :
               /\ ev'.writes = IF lower > upper THEN << <<0, 0>> >>
                               ELSE << <<lower, upper>> >>
               /\ lower = MergedLower(St')
               /\ upper = MergedUpper(St')]_vars

\* a band was written whose lower bound is not the display's, on a sensor
\* without keyboard table, whose keyboard band was never computed
C13_Witness ==
    /\ ev.op \in LuxOps /\ ev.writes = << threshold_file >>
    /\ threshold_file[1] # brightness_lower["display"]
    /\ threshold_file[1] < threshold_file[2]
    /\ ~HasProfile(als_type, "kbd") /\ brightness_upper["kbd"] = -1

\* the rows of table p before its closing row, if it has one
RowsOf(p) ==
    {i \in 0..(ALS_RANGES - 1) : \A j \in 0..i : p.range[j][1] # -1}
HasSentinel(p) == \E i \in 0..(ALS_RANGES - 1) : p.range[i][1] = -1

\* a closing row, low <= high within a row, rows ascending
ValidProfile(p) ==
    /\ HasSentinel(p)
    /\ \A i \in RowsOf(p) : p.range[i][1] <= p.range[i][2]
    /\ \A i \in RowsOf(p) :
         (i + 1) \in RowsOf(p)
            => /\ p.range[i][1] <= p.range[i + 1][1]
               /\ p.range[i][2] <= p.range[i + 1][2]

\* filter_data() called again on the table of the last call
Again(lux, level) ==
    filter_data([k \in {ALS_PROFILE_NORMAL} |-> ev.args.profile],
                ALS_PROFILE_NORMAL, lux, level)

\* what the last call of filter_data() gave
Given ==
    [level |-> als_level["display"], lower |-> brightness_lower["display"],
     upper |-> brightness_upper["display"], value |-> ev.args.value]

\* C14: for a profile with closing row and ascending rows, whatever the
\* starting level and the lux, a second call of filter_data() with the same
\* lux and the level the first call produced returns the same level,
\* brightness and band.
C14_NoOscillation ==
    ((ev.op = "filter_data") /\ ValidProfile(ev.args.profile))
        => (Again(ev.args.lux, als_level["display"]) = Given)

\* the first call moved the level to a row in whose hysteresis window
\* (low <= lux < high) the lux lies
C14_Witness ==
    /\ ev.op = "filter_data" /\ ValidProfile(ev.args.profile)
    /\ ev.args.level >= 0 /\ als_level["display"] # ev.args.level
    /\ als_level["display"] \in RowsOf(ev.args.profile)
    /\ ev.args.profile.range[als_level["display"]][1] <= ev.args.lux
    /\ ev.args.lux < ev.args.profile.range[als_level["display"]][2]

\* the brightness values of table p do not decrease with the level
ValuesAscend(p) ==
    \A l \in 0..(ALS_RANGES - 1) : p.value[l] <= p.value[l + 1]

\* C15: for a profile with closing row and ascending rows and a fixed
\* starting level, the level filter_data() returns does not decrease when
\* the lux grows, and neither does the brightness when the table's values
\* do not decrease with the level.
C15_Monotonic ==
    ((ev.op = "filter_data") /\ ValidProfile(ev.args.profile))
        => \A lux2 \in FilterLux :
             (ev.args.lux <= lux2)
                => \E r \in {Again(lux2, ev.args.level)} :
                     /\ als_level["display"] <= r.level
                     /\ ValuesAscend(ev.args.profile)
                           => (ev.args.value <= r.value)

\* from one starting level a low lux took the level down and a higher lux
\* takes it up
C15_Witness ==
    /\ ev.op = "filter_data" /\ ValidProfile(ev.args.profile)
    /\ ValuesAscend(ev.args.profile)
    /\ als_level["display"] < ev.args.level
    /\ \E lux2 \in FilterLux :
         /\ ev.args.lux < lux2
         /\ Again(lux2, ev.args.level).level > ev.args.level
         /\ Again(lux2, ev.args.level).value > ev.args.value

\* the starting level as filter_data() clamps it
Clamped(level) ==
    IF level = -1 THEN 0 ELSE IF level > ALS_RANGES THEN ALS_RANGES ELSE level

\* the level of a scan from row 0 upwards that ends at the closing row or at
\* the first row whose chosen boundary is above the lux (and at the last row
\* when no row ends it); lowrows are the rows compared by their lower boundary
ScanLevel(p, lux, lowrows) ==
    LET ends == {i \in 0..(ALS_RANGES - 1) :
                   \/ p.range[i][1] = -1
                   \/ lux < p.range[i][IF i \in lowrows THEN 1 ELSE 2]}
    IN  IF ends = {} THEN ALS_RANGES - 1 ELSE SetMin(ends)

\* C16 as stated: a row whose index is at or below the current level is
\* compared by its lower boundary, a row above the current level by its
\* upper boundary; the first row whose chosen boundary exceeds the lux
\* becomes the new level.
C16_BoundaryChoice_AsStated ==
    (ev.op = "filter_data")
        => (als_level["display"] =
              ScanLevel(ev.args.profile, ev.args.lux,
                        {i \in 0..(ALS_RANGES - 1) :
                           i <= Clamped(ev.args.level)}))

\* C16 amended: a row whose index is below the current level is compared by
\* its lower boundary, a row at or above the current level by its upper
\* boundary; the first row whose chosen boundary exceeds the lux becomes the
\* new level.
C16_BoundaryChoice ==
    (ev.op = "filter_data")
        => (als_level["display"] =
              ScanLevel(ev.args.profile, ev.args.lux,
                        {i \in 0..(ALS_RANGES - 1) :
                           i < Clamped(ev.args.level)}))

\* the lux lies between the boundaries of the row at the current level and
\* the level stays: the row was compared by its upper boundary
C16_Witness ==
    /\ ev.op = "filter_data" /\ ValidProfile(ev.args.profile)
    /\ ev.args.level \in RowsOf(ev.args.profile)
    /\ ev.args.profile.range[ev.args.level][1] <= ev.args.lux
    /\ ev.args.lux < ev.args.profile.range[ev.args.level][2]
    /\ als_level["display"] = ev.args.level

\* C17 as stated: with the rows (0,100,20%), (100,300,50%), (300,-1,90%)
\* and the closing row, at level 0, a lux of 400 gives level 2, brightness
\* 90% and the band (300,65535); a lux of 50 gives level 0 and 20%.
C17_Scenario_AsStated ==
    ((ev.op = "filter_data") /\ (ev.args.profile = ScenarioProfile) /\
     (ev.args.level = 0))
        => /\ (ev.args.lux = 400)
                 => (Given = [level |-> 2, lower |-> 300, upper |-> 65535,
                              value |-> 90])
           /\ (ev.args.lux = 50)
                 => ((Given.level = 0) /\ (Given.value = 20))

\* C17 amended: with these rows, at level 0, a lux of 400 passes the third
\* row as well, whose upper boundary -1 is above no lux: the level is 3,
\* the closing row, the band is (300,65535) and the brightness is the value
\* stored for level 3, none of the three listed; a lux of 50 gives level 0
\* and 20%.
C17_Scenario ==
    ((ev.op = "filter_data") /\ (ev.args.profile = ScenarioProfile) /\
     (ev.args.level = 0))
        => /\ (ev.args.lux = 400)
                 => (Given = [level |-> 3, lower |-> 300, upper |-> 65535,
                              value |-> ScenarioProfile.value[3]])
           /\ (ev.args.lux = 50)
                 => ((Given.level = 0) /\ (Given.value = 20))

\* the scenario's table was evaluated at level 0 with lux 400
C17_Witness ==
    /\ ev.op = "filter_data" /\ ev.args.profile = ScenarioProfile
    /\ ev.args.level = 0 /\ ev.args.lux = 400
    /\ als_level["display"] = 3

\* no row of table p ends a scan for this lux from this starting level
NoRowEnds(p, lux, level) ==
    \A i \in 0..(ALS_RANGES - 1) :
       /\ p.range[i][1] # -1
       /\ ~(lux < p.range[i][IF i < Clamped(level) THEN 1 ELSE 2])

\* C18: when the table has no closing row within its ALS_RANGES rows and
\* the lux is below no boundary of the scan, filter_data() returns the upper
\* bound 65535, a level that is a row of the table, the lower bound of the
\* last row, and reads no element outside the table.
C18_FailSafe ==
    ((ev.op = "filter_data") /\
     NoRowEnds(ev.args.profile, ev.args.lux, ev.args.level))
        => /\ Given.upper = 65535
           /\ Given.level \in 0..(ALS_RANGES - 1)
           /\ Given.lower = ev.args.profile.range[ALS_RANGES - 1][1]
           /\ Given.value = ev.args.profile.value[Given.level]
           /\ \E rd \in {filter_data_reads(
                             [k \in {ALS_PROFILE_NORMAL} |-> ev.args.profile],
                             ALS_PROFILE_NORMAL, ev.args.lux, ev.args.level)} :
                /\ rd.range \subseteq 0..(ALS_RANGES - 1)
                /\ rd.value \subseteq 0..(ALS_RANGES - 1)

\* a table of ALS_RANGES rows was scanned to its end
C18_Witness ==
    /\ ev.op = "filter_data" /\ ~HasSentinel(ev.args.profile)
    /\ NoRowEnds(ev.args.profile, ev.args.lux, ev.args.level)
    /\ als_level["display"] = ALS_RANGES - 1
    /\ brightness_upper["display"] = 65535

\* the callback recorded in e got no reading: a short read handed to an
\* I/O-monitor callback (or a sample without update), a failed read of the
\* poll timer
NoReading(e) ==
    \/ (e.op \in IomonOps) /\ (e.lux = -1)
    \/ (e.op = "als_poll_timer_cb") /\ (e.lux = -1) /\ e.status

\* C19: a failed or short read, on the poll-timer path or on the
\* I/O-monitor path, only skips the update: the cached lux, the levels, the
\* brightness and the band are unchanged, ALS stays enabled, nothing is
\* written, and the poll timer or I/O monitor stays registered.
C19_ReadFailureSkips ==
    [][NoReading(ev')
          => /\ Decision' = Decision
             /\ ev'.writes = << >> /\ ~ev'.pipes
             /\ als_enabled' = als_enabled
             /\ poll_sources' = poll_sources
             /\ als_poll_timer_cb_id' = als_poll_timer_cb_id
             /\ iomon_registered' = iomon_registered
             /\ als_iomon_id' = als_iomon_id]_vars

\* what a brightness filter gives for the cached input of pipe c when it
\* does not look at a profile
PassThrough(c) ==
    IF c # "display" THEN pipe_input[c]
    ELSE IF display_state \in DisplayOffStates THEN 0
    ELSE (MAX(ALS_PROFILE_MINIMUM,
              MIN(ALS_PROFILE_MAXIMUM, pipe_input[c] - 1)) + 1) * 20

\* C20: without a sensor, or when the initial read failed, ALS is unavailable
\* and disabled after g_module_check_init() and stays so: no notification of
\* the setting and no display-state change enables it again, and every run
\* of a brightness filter leaves the levels and bands alone and gives the
\* value it gives without a profile.
C20_Degraded ==
    [][/\ ((ev.op = "g_module_check_init") /\
           ((als_type = "NONE") \/ (als_lux = -1)))
             => ~als_available
       /\ ~als_available
             => /\ ~als_enabled
                /\ ~als_available' /\ ~als_enabled'
                /\ als_level' = als_level
                /\ brightness_lower' = brightness_lower
                /\ brightness_upper' = brightness_upper
                /\ \A c \in Consumers :
                     pipe_output'[c] \in {pipe_output[c], PassThrough(c)}
                /\ (ev'.op = "execute_datapipe")
                      => \E c \in Consumers : pipe_output'[c] = PassThrough(c)
      ]_vars

\* a sensor whose initial read failed: the display filter has passed its
\* input through, and a notification that turns the setting on has left ALS
\* disabled
C20_Witness ==
    /\ ev.op = "als_gconf_cb" /\ ev.args = <<FALSE, TRUE>>
    /\ als_type # "NONE" /\ ~als_available /\ ~als_enabled
    /\ display_state \in DisplayOnStates
    /\ pipe_output["display"] = PassThrough("display")

\* C21: under the step-down policy "unblank" a reading lower than the cached
\* lux is not applied until the next display transition from off to on: no
\* callback but that transition lowers the cached lux, the step-down timer
\* included.
C21_UnblankDefers ==
    [][((brightness_step_down_policy = "unblank") /\ (als_lux' < als_lux))
          => /\ ev'.op = "display_state_trigger"
             /\ old_display_state \in DisplayOffStates
             /\ display_state' \in DisplayOnStates]_vars

\* the module has just been loaded on a machine with a sensor, and the
\* calibration store returned the blob ev.args.sysinfo
Loaded == (ev.op = "g_module_check_init") /\ (als_type # "NONE")

\* the blob is a whole number n >= 1 of 32-bit words
WholeBlob ==
    /\ ev.args.sysinfo.ok
    /\ ev.args.sysinfo.len % 4 = 0
    /\ ev.args.sysinfo.len \div 4 >= 1

\* C22: a calibration blob of n 32-bit words: word 0 is written to the first
\* calibration channel; with n = 1 nothing is written to the second, with
\* n >= 2 word 1 is written to the second channel when the family has one;
\* the words beyond the second are ignored.
C22_CalibrationWords ==
    (Loaded /\ WholeBlob) =>
        /\ sysfs.calib0 = <<ev.args.sysinfo.words[1]>>
        /\ sysfs.calib1 =
              IF (ev.args.sysinfo.len \div 4 >= 2) /\
                 (als_paths.als_calib1_path # "NULL")
              THEN <<ev.args.sysinfo.words[2]>>
              ELSE << >>

\* C23: a calibration blob whose length is not a multiple of 4, a blob of
\* length zero or a failed retrieval causes no write to either calibration
\* channel and changes neither the availability nor the enablement of the
\* ALS: the initialisation goes on to the initial read, whose result alone
\* decides them.
C23_BadBlobSkips ==
    (Loaded /\ ~WholeBlob) =>
        /\ sysfs.calib0 = << >>
        /\ sysfs.calib1 = << >>
        /\ ev.args.first \in ProbeReads
        /\ als_available = (ev.args.first >= 0)
        /\ als_enabled = (ev.args.first >= 0)
        /\ als_lux = ev.args.first

C23_Witness ==
    /\ Loaded
    /\ ev.args.sysinfo.ok
    /\ ev.args.sysinfo.len % 4 # 0
    /\ ev.args.sysinfo.len > 4
    /\ als_paths.als_calib1_path # "NULL"
    /\ als_available /\ als_enabled /\ (als_lux = MaxLux)

\* C24: the resolution of the device family is one memoized transition: the
\* probe runs once, on the first request; every later request returns the
\* same family (or none) and changes none of the selected paths, profile
\* tables or median-filter flag, however the accessibility of the channels
\* changes afterwards.
C24_Memoized ==
    [][/\ als_type' = als_type
       /\ als_paths' = als_paths
       /\ als_threshold_range_path' = als_threshold_range_path
       /\ sysfs.probes = 1 /\ sysfs'.probes = 1
       /\ (ev'.op = "get_als_type") => (ev'.args = <<als_type>>)]_vars

\* the probe, done now, would find another family first
C24_Witness ==
    /\ ev.op = "get_als_type"
    /\ als_type = "TSL2562"
    /\ sysfs.readable = {"AVAGO", "TSL2563"}
    /\ sysfs.writable /\ ~als_threshold_range_path

\* the family the fixed order of the probe gives for a set of readable nodes
FirstReadable(nodes) ==
    IF "AVAGO" \in nodes THEN "AVAGO"
    ELSE IF "DIPRO" \in nodes THEN "DIPRO"
    ELSE IF "TSL2563" \in nodes THEN "TSL2563"
    ELSE IF "TSL2562" \in nodes THEN "TSL2562"
    ELSE "NONE"

\* C25: the probe tries the Avago device, the Dipro device, the TSL2563 lux
\* path and the TSL2562 lux path in this order, and the first one accessible
\* wins whatever the accessibility of the later ones, none being found
\* otherwise; the two interrupt-driven families select no software median
\* filter, the two poll-based families select it.
C25_ProbeOrder ==
    (ev.op = "g_module_check_init") =>
        /\ als_type = FirstReadable(sysfs.readable)
        /\ (als_type \in {"AVAGO", "DIPRO"})
              => ~als_paths.use_median_filter
        /\ (als_type \in {"TSL2563", "TSL2562"})
              => als_paths.use_median_filter

C25_Witness ==
    /\ ev.op = "g_module_check_init"
    /\ sysfs.readable = {"DIPRO", "TSL2563", "TSL2562"}
    /\ als_type = "DIPRO"
    /\ ~als_paths.use_median_filter

\* C26: when the threshold-control channel is absent, or was not writable
\* when the device family was resolved, no threshold is ever written: every
\* request (a band, the force (0,0), the disable (0,65535), the restore
\* (-1,-1)) writes nothing and leaves the cached band as it was.
C26_NoChannelNoWrite ==
    [][~als_threshold_range_path =>
          /\ threshold_file = << >> /\ threshold_file' = << >>
          /\ ev'.writes = << >>
          /\ cached_lower' = cached_lower
          /\ cached_upper' = cached_upper]_vars

\* a band asked for on a Dipro sensor whose channel could not be written
C26_Witness ==
    /\ ~als_threshold_range_path
    /\ als_type = "DIPRO" /\ ~sysfs.writable
    /\ ev.op = "adjust_als_thresholds"
    /\ ev.args = <<1, 2>>
    /\ threshold_file = << >>

\* C27: when the threshold-control channel is absent or not writable the
\* sensor is read by the polling timer and never through an I/O monitor,
\* whatever family was detected: no I/O monitor is registered and no I/O
\* monitor callback runs.
C27_PollingOnly ==
    ~als_threshold_range_path =>
        /\ als_iomon_id = 0
        /\ iomon_registered = 0
        /\ ev.op \notin IomonOps

\* C28: inside every applied lux update the cached lux is assigned first,
\* then the display, LED and keyboard pipes are re-executed in this order,
\* and only then is the merged band computed and written: a band written by
\* a lux update is the one merged from the bands the re-executed filters
\* left, never one written before them.
C28_UpdateOrder ==
    ((ev.op \in LuxOps) /\ (ev.order # << >>)) =>
        /\ ev.order \in {<<"lux", "display", "led", "kbd">>,
                         <<"lux", "display", "led", "kbd", "write">>}
        /\ Len(ev.writes) = (IF Len(ev.order) = 5 THEN 1 ELSE 0)
        /\ ((ev.writes # << >>) /\ (MergedLower(St) < MergedUpper(St)))
              => (ev.writes = << <<MergedLower(St), MergedUpper(St)>> >>)

C28_Witness ==
    /\ ev.op = "brightness_delay_timer_cb"
    /\ ev.order = <<"lux", "display", "led", "kbd", "write">>
    /\ MergedLower(St) < MergedUpper(St)
    /\ ev.writes = << <<MergedLower(St), MergedUpper(St)>> >>
    /\ als_lux = ev.lux

\* C29: on a display transition from off or low-power to on or dim with a
\* successful read of the sensor the brightness of every consumer is
\* recomputed from the lux just read: after the transition the cached lux
\* the filters use equals the new reading.
C29_WakeUsesNewLux ==
    [][((ev'.op = "display_state_trigger") /\
        (old_display_state \in DisplayOffStates) /\
        (display_state' \in DisplayOnStates) /\
        als_enabled /\ (ev'.lux >= 0))
          => (als_lux' = ev'.lux)]_vars

\* the highest level of the consumer's tables: the index of the closing row
TopLevel(c) == Cardinality(RowsOf(Profiles(c)[ALS_PROFILE_NORMAL]))

\* every consumer that has a table is at the highest level of its tables
AllAtTop(level) ==
    \A c \in Consumers : HasProfile(als_type, c) => (level[c] = TopLevel(c))

\* the callback received a saturated reading: as the sentinel G_MAXINT
Saturated(e) ==
    (e.op \in {"als_avago_iomon_cb", "display_state_trigger"}) /\
    (e.lux = G_MAXINT)

\* C30: saturation of the sensor is never an error: a reading flagged
\* saturated is delivered as the maximal sentinel lux and processed as a
\* normal step-up, read synchronously or delivered through the I/O monitor,
\* so that the levels of the consumers move to the highest level of their
\* profiles.  (A normal step-up is one taken while the proximity sensor is
\* not covered: a covered sensor holds every reading back.)
C30_SaturationStepsUp ==
    [][(Saturated(ev') /\ (proximity_sensor_state' # "COVER_CLOSED"))
          => ((als_lux' = G_MAXINT) /\ AllAtTop(als_level'))]_vars

\* the display value without a profile: setting x 20, the setting clamped
\* to 1..5
SettingValue(data) ==
    20 * (IF data < 1 THEN 1 ELSE IF data > 5 THEN 5 ELSE data)

\* C31: while ALS is disabled the brightness filters pass their input
\* through whatever the lux: the LED and keyboard filters return the input
\* unchanged, the display filter (display on or dim) returns setting x 20
\* with the setting clamped to 1..5, and no level and no band of a consumer
\* is modified.
C31_DisabledPassThrough ==
    [][((ev'.op = "brightness_filter") /\ ~als_enabled)
          => /\ als_level' = als_level
             /\ brightness_lower' = brightness_lower
             /\ brightness_upper' = brightness_upper
             /\ (ev'.args[1] # "display")
                   => (ev'.retval = ev'.args[2])
             /\ ((ev'.args[1] = "display") /\
                 (display_state \in DisplayOnStates))
                   => (ev'.retval = SettingValue(ev'.args[2]))]_vars

\* ALS turned off by the setting on a working sensor: the display filter,
\* display dim, gives 100 for an input above the settings
C31_Witness ==
    /\ ev.op = "brightness_filter" /\ ev.args = <<"display", 6>>
    /\ ~als_enabled /\ als_available
    /\ als_lux = MaxLux
    /\ ev.retval = 100
    /\ display_state = "DIM"

\* C32: a deletion notification for an I/O monitor handle clears the cached
\* handle of its owner only if the cached handle is the one being deleted:
\* a notification for an old handle never clears a cached handle of a newer
\* registration, and a notification for one monitor never clears the cached
\* handle of the other monitor.
C32_DeleteByIdentity ==
    [][/\ (ev'.op = "camera_popout_state_iomon_delete_cb")
             => /\ camera_popout_state_iomon_id' =
                      IF ev'.args[1] = camera_popout_state_iomon_id
                      THEN 0 ELSE camera_popout_state_iomon_id
                /\ camera_active_state_iomon_id' =
                      camera_active_state_iomon_id
       /\ (ev'.op = "camera_active_state_iomon_delete_cb")
             => /\ camera_active_state_iomon_id' =
                      IF ev'.args[1] = camera_active_state_iomon_id
                      THEN 0 ELSE camera_active_state_iomon_id
                /\ camera_popout_state_iomon_id' =
                      camera_popout_state_iomon_id]_vars

\* the pop-out callback was told of the deletion of the handle the active
\* monitor holds: both cached handles are kept
C32_Witness ==
    /\ ev.op = "camera_popout_state_iomon_delete_cb"
    /\ camera_active_state_iomon_id # 0
    /\ camera_popout_state_iomon_id # 0
    /\ ev.args = <<camera_active_state_iomon_id>>

\* C33: cancellation is idempotent: cancelling the sensor source (I/O
\* monitor and poll timer) or the step-down timer clears the recorded ids;
\* when they are already cleared it is a no-op, no unregister and no source
\* removal being issued, so that cancelling twice in a row leaves the state
\* the first cancel left.
C33_CancelIdempotent ==
    [][/\ (ev'.op = "cancel_als_poll_timer")
             => /\ als_iomon_id' = 0 /\ als_poll_timer_cb_id' = 0
                /\ ((als_iomon_id = 0) /\ (als_poll_timer_cb_id = 0))
                      => /\ ev'.dropped = 0
                         /\ [St' EXCEPT !.ev = ev] = St
       /\ (ev'.op = "cancel_brightness_delay_timer")
             => /\ brightness_delay_timer_cb_id' = 0
                /\ (brightness_delay_timer_cb_id = 0)
                      => /\ ev'.removed = 0
                         /\ [St' EXCEPT !.ev = ev] = St]_vars

\* the sensor source of a Dipro sensor cancelled again, the display on
C33_Witness ==
    /\ ev.op = "cancel_als_poll_timer"
    /\ ev.dropped = 0
    /\ als_type = "DIPRO" /\ als_enabled /\ display_state = "ON"
    /\ als_iomon_id = 0 /\ iomon_registered = 0

\* C34: in every reachable state the recorded id of the step-down timer is
\* non-zero exactly when a step-down timer is pending in the main loop; in
\* particular the recorded id is zero after the timer's callback has run,
\* whatever the proximity state and the lux values were, so that a later
\* step-down reading arms a new timer.
C34_TimerIdMatchesSource ==
    /\ (brightness_delay_timer_cb_id # 0) <=> (delay_sources > 0)
    /\ (ev.op = "brightness_delay_timer_cb")
          => (brightness_delay_timer_cb_id = 0)

\* C35: a pending step-down is never silently lost: when the step-down timer
\* fires while a step-down value L is pending (L below the cached lux), the
\* cached lux becomes L and the brightness pipes and the band are recomputed,
\* under every proximity-sensor state and display state at the time of the
\* fire.
C35_PendingStepDownApplied ==
    [][ ( /\ TimerPending
          /\ delayed_lux < als_lux
          /\ ev'.op = "brightness_delay_timer_cb" )
        => ( /\ als_lux' = delayed_lux
             /\ ev'.pipes
             /\ ev'.writes # << >> ) ]_vars

\* C36: every threshold band written by a lux update (I/O monitor, poll timer
\* or step-down timer fire) with the cached lux in 0..65534 is either the
\* forced (0,0) or contains the cached lux (lower <= cached lux < upper), in
\* every display state.
C36_WrittenBandHoldsLux ==
    ( /\ ev.op \in LuxOps
      /\ als_lux \in 0..65534 )
    => \A i \in DOMAIN ev.writes :
          \/ ev.writes[i] = <<0, 0>>
          \/ /\ ev.writes[i][1] <= als_lux
             /\ als_lux < ev.writes[i][2]

\* C37: while the proximity sensor reports covered, a lux event on the
\* I/O-monitor path changes nothing: cached lux, pending step-down value,
\* consumer levels, bands and brightness, the armed and the cached band are
\* unchanged, no pipe is re-executed, nothing is written, and the step-down
\* timer is neither armed nor cancelled.
C37_CoveredIgnoresLux ==
    [][ ( /\ proximity_sensor_state = "COVER_CLOSED"
          /\ ev'.op \in IomonOps )
        => ( /\ UNCHANGED <<als_lux, delayed_lux, als_level, brightness_lower,
                            brightness_upper, pipe_output, threshold_file,
                            cached_lower, cached_upper,
                            brightness_delay_timer_cb_id, delay_sources>>
             /\ ~ev'.pipes
             /\ ev'.writes = << >>
             /\ ev'.armed = 0
             /\ ev'.removed = 0 ) ]_vars

\* a reading that differs from the cached lux arrived through the I/O monitor
\* while the proximity sensor reported covered
C37_Witness ==
    /\ proximity_sensor_state = "COVER_CLOSED"
    /\ ev.op \in IomonOps
    /\ ev.lux # -1
    /\ ev.lux # als_lux

\* C38: the last-known-good band cache is unchanged by every step taken while
\* the external ownership count is non-zero, and by the steps that take the
\* count from 0 and back to 0, whatever the interleaving of lux events, timer
\* fires and display-state transitions; the band written when the count
\* returns to 0 is the band that was cached before the first acquire.
C38_CacheKeptWhileOwned ==
    [][ /\ ( (als_external_refcount # 0) \/ (als_external_refcount' # 0) )
           => UNCHANGED <<cached_lower, cached_upper>>
        /\ ( /\ als_external_refcount # 0
             /\ als_external_refcount' = 0
             /\ ev'.writes # << >>
             /\ cached_lower # -1 )
           => ev'.writes[Len(ev'.writes)] = <<cached_lower, cached_upper>>
      ]_vars

\* a lux update re-filtered the brightness while the sensor was externally
\* owned and a band was in the cache
C38_Witness ==
    /\ als_external_refcount # 0
    /\ ev.op \in LuxOps
    /\ ev.pipes
    /\ cached_lower # -1

\* C39: while the display state is off, low-power-off or low-power-on, the
\* display brightness filter returns 0 for every input and leaves the display
\* consumer's level and its lower and upper bound unchanged, whatever the
\* cached lux.
C39_DisplayOffGivesZero ==
    [][ ( /\ ev'.op = "brightness_filter"
          /\ ev'.args[1] = "display"
          /\ display_state \in DisplayOffStates )
        => ( /\ ev'.retval = 0
             /\ als_level'["display"] = als_level["display"]
             /\ brightness_lower'["display"] = brightness_lower["display"]
             /\ brightness_upper'["display"] = brightness_upper["display"] )
      ]_vars

\* the display filter ran with the display in low-power mode, ALS enabled on
\* a working sensor, for the highest brightness setting
C39_Witness ==
    /\ ev.op = "brightness_filter" /\ ev.args = <<"display", 5>>
    /\ display_state = "LPM_ON"
    /\ als_enabled /\ als_available
    /\ als_lux = MaxLux
    /\ ev.retval = 0

\* the callbacks that deliver a reading of the sensor
ReadingOps == IomonOps \cup {"als_poll_timer_cb"}

\* C40: a reading whose smoothed lux equals the cached lux causes no
\* brightness recompute and no threshold write and leaves the cached lux and
\* the step-down timer untouched, provided the display band has been computed
\* (display lower bound differs from -1); if it has never been computed the
\* reading is processed although the lux is unchanged.
C40_EqualLuxSkipped ==
    [][ ( /\ ev'.op \in ReadingOps
          /\ ev'.lux >= 0
          /\ ev'.lux = als_lux )
        => IF brightness_lower["display"] # -1
           THEN /\ ~ev'.pipes
                /\ ev'.writes = << >>
                /\ ev'.armed = 0
                /\ ev'.removed = 0
                /\ UNCHANGED <<als_lux, delayed_lux, als_level,
                               brightness_lower, brightness_upper,
                               threshold_file, brightness_delay_timer_cb_id,
                               delay_sources>>
           ELSE /\ ev'.pipes
                /\ als_lux' = ev'.lux ]_vars

\* the display band is computed by the re-filter of the module's load, before
\* a source of readings exists: no callback that delivers a reading or fires
\* the step-down timer finds the display lower bound at -1
BandComputedBeforeReadings ==
    [][ (ev'.op \in LuxOps) => (brightness_lower["display"] # -1) ]_vars

\* a reading equal to the cached lux arrived through the I/O monitor with
\* the sensor uncovered while a step-down timer was pending
C40_Witness ==
    /\ ev.op \in IomonOps
    /\ ev.lux >= 0
    /\ ev.lux = als_lux
    /\ ~ev.pipes
    /\ brightness_lower["display"] # -1
    /\ proximity_sensor_state = "COVER_OPEN"
    /\ TimerPending

=========================================================================
